---- MODULE Spec2Model ----
(***************************************************************************)
(* Bricks-4-two: the wall topology engine (src/src/wall.js, first class    *)
(* pair of the file), the tick driver (src/src/game.js, first class of the *)
(* file) and the sub-stepping ball integrator (src/unnamed/part_003).      *)
(*                                                                         *)
(* Spec     the game: handlers between frames and Game.update step by step *)
(* WallSpec the Wall object under any order of its calls                   *)
(* TopoSpec analyzeTopology() on every registry of a small patch           *)
(* NeighborSpec getMasonryNeighbors() on every coordinate of a square      *)
(* PatchSpec one processWallImpact, addBrickAt or checkWin call on every   *)
(*          registry of a small patch and on the fresh wide ribbon         *)
(* ApiSpec  the Wall driven entry by entry through its public methods      *)
(* CanvasSpec initializeWall() on every canvas width up to two bricks      *)
(* CollisionSpec one checkCollision(ball) call with its contact geometry   *)
(* ShortSpec the game on a canvas too short for its ribbon                 *)
(* PowerUpSpec the game from a wall that holds a power-up brick            *)
(*                                                                         *)
(* A registry entry is a record                                            *)
(*   [key, rowCoordinate, columnCoordinate, type, isOrphan, inertFromSide] *)
(* where key = <<column, row>> is the Map key `${col},${row}` under which  *)
(* the Brick object was stored; the JS Map keeps insertion order, so the   *)
(* registry is a sequence of entries.  null is the string "null".          *)
(***************************************************************************)
EXTENDS Integers, Sequences, FiniteSets, TLC

VARIABLES
    clientWidth,        \* canvas.clientWidth
    clientHeight,       \* canvas.clientHeight
    activeBrickMap,     \* Wall.activeBrickMap, in insertion order
    pendingImpacts,     \* Wall.pendingImpacts, in insertion order: [key, side]
    masterMinCol,       \* Wall.masterMinCol
    masterMaxCol,       \* Wall.masterMaxCol
    baselineMiddleRow,  \* Wall.baselineMiddleRow
    topLimit,           \* Wall.topLimit
    bottomLimit,        \* Wall.bottomLimit
    lastHitBrickType,   \* Wall.lastHitBrickType
    topoResult,         \* value returned by the last analyzeTopology() call
    running,            \* Game.running
    ballsTop,           \* Game.ballsTop: sequence of [active, isExtra]
    ballsBottom,        \* Game.ballsBottom
    isAiTop,            \* Game.isAiTop
    isAiBottom,         \* Game.isAiBottom
    matchesWonTop,      \* Game.matchesWonTop
    matchesWonBottom,   \* Game.matchesWonBottom
    winData,            \* Game.winData: [winner, brick] or "null"
    pc,                 \* position inside Game.update: idle, top, bottom, resolve, finish
    iter,               \* position of the running for..of loop over a ball array
    drainIdx,           \* position of the for..of loop of resolvePendingImpacts
    ticks,              \* Game.update calls that found the game running (WallSpec:
                        \* resolvePendingImpacts calls; TopoSpec: analyzeTopology calls)
    tickLog,            \* what the current tick did: stagings, resolved impacts, drains
    lastImpact,         \* the most recent processWallImpact call
    probe,              \* a getMasonryNeighbors(row, col) call: [row, col, pts]
    ball                \* a checkCollision(ball) call: the ball's x, y, vx, vy and
                        \* side, what the call returned, the key of the brick it
                        \* chose (best) and the ball as it was passed (was)

wallVars == <<clientWidth, clientHeight, activeBrickMap, pendingImpacts,
              masterMinCol, masterMaxCol, baselineMiddleRow, topLimit,
              bottomLimit, lastHitBrickType, topoResult>>

gameVars == <<running, ballsTop, ballsBottom, isAiTop, isAiBottom,
              matchesWonTop, matchesWonBottom, winData>>

stepVars == <<pc, iter, drainIdx, ticks, tickLog, lastImpact>>

vars == <<wallVars, gameVars, stepVars, probe, ball>>

----------------------------------------------------------------------------
(* Program constants of the Wall constructor and updateInertFlags.         *)

maxBrickWidth == 60

brickHeight == 25

edgeBufferCols == 1

TopLimitRow == 4

DefaultScreenW == 800

Kinds == {"null", "extraBall", "removeBall", "enlargePaddle", "shrinkPaddle", "demo"}

PowerUps == {"extraBall", "removeBall", "enlargePaddle", "shrinkPaddle"}

Sides == {"top", "bottom"}

(* Bounds of the model.                                                    *)

\* canvas widths range over 1..MaxColumns brick widths
MaxColumns == 2

\* Game.update calls explored
MaxTicks == 1

\* sub-steps of one Ball.update (Math.ceil(gameSpeed / 2))
MaxSubSteps == 2

\* contacts staged within one tick
MaxStaged == 2

\* balls per side
MaxBalls == 2

\* power-up bricks in the registry at one time
MaxSpecials == 1

Widths == {w * maxBrickWidth : w \in 1..MaxColumns}

\* 175: the band between the row limits is rows 4..5 and the baseline row is
\* the top limit; 225: the band is rows 4..7 and the baseline row 5 lies
\* strictly inside
Heights == {175, 225}

\* Ball constructor: this.radius
BallRadius == 8

----------------------------------------------------------------------------
(* Arithmetic helpers: Math.abs, Math.round and Math.max on the integers   *)
(* and non-negative quotients the wall uses.                               *)

Abs(n) == IF n < 0 THEN -n ELSE n

Max(a, b) == IF a >= b THEN a ELSE b

\* Math.round(n / d) for n >= 0, d > 0 (halves round up).
RoundDiv(n, d) == (2 * n + d) \div (2 * d)

----------------------------------------------------------------------------
(* The registry as an insertion-ordered Map.                               *)

Key(col, row) == <<col, row>>

MapHas(map, key) == \E i \in 1..Len(map) : map[i].key = key

MapIndex(map, key) == CHOOSE i \in 1..Len(map) : map[i].key = key

MapGet(map, key) == map[MapIndex(map, key)]

MapKeys(map) == {map[i].key : i \in 1..Len(map)}

MapDelete(map, key) == SelectSeq(map, LAMBDA e : e.key # key)

\* new Brick(row, col, ...): isOrphan = false, inertFromSide = null.
Brick(row, col, type) ==
    [key |-> Key(col, row), rowCoordinate |-> row, columnCoordinate |-> col,
     type |-> type, isOrphan |-> FALSE, inertFromSide |-> "null"]

\* `${b.columnCoordinate},${b.rowCoordinate}`
BrickKey(b) == Key(b.columnCoordinate, b.rowCoordinate)

----------------------------------------------------------------------------
(* getMasonryNeighbors(row, col): the six <<row, col>> pairs, in the       *)
(* order the code pushes them.                                             *)

\* variant: the even-row offsets used for every row (no stagger)
GetMasonryNeighborsNoStagger(row, col) ==
    << <<row, col - 1>>, <<row, col + 1>>,
       <<row - 1, col>>, <<row - 1, col - 1>>,
       <<row + 1, col>>, <<row + 1, col - 1>> >>

GetMasonryNeighbors(row, col) ==
    LET parity == Abs(row) % 2
    IN  IF parity = 0
        THEN << <<row, col - 1>>, <<row, col + 1>>,
                <<row - 1, col>>, <<row - 1, col - 1>>,
                <<row + 1, col>>, <<row + 1, col - 1>> >>
        ELSE << <<row, col - 1>>, <<row, col + 1>>,
                <<row - 1, col>>, <<row - 1, col + 1>>,
                <<row + 1, col>>, <<row + 1, col + 1>> >>

----------------------------------------------------------------------------
(* analyzeTopology(): breadth-first flood fill from the bricks with        *)
(* columnCoordinate <= masterMinCol.  queue holds registry indices (the    *)
(* Brick objects), visited holds key strings, clear holds the indices of   *)
(* the objects whose isOrphan was set to false.                            *)

RECURSIVE FloodFill(_, _, _, _)
FloodFill(map, queue, visited, clear) ==
    IF queue = << >> THEN clear
    ELSE LET curr == map[Head(queue)]
             nbrs == GetMasonryNeighbors(curr.rowCoordinate, curr.columnCoordinate)
             keys == [n \in 1..6 |-> Key(nbrs[n][2], nbrs[n][1])]
             \* a neighbour is taken when its key is present and neither
             \* visited before nor taken earlier in this same for-loop
             take == {n \in 1..6 :
                         /\ MapHas(map, keys[n])
                         /\ keys[n] \notin visited
                         /\ \A m \in 1..(n - 1) : keys[m] # keys[n]}
             found == SelectSeq([n \in 1..6 |-> n], LAMBDA n : n \in take)
             idxs == [k \in 1..Len(found) |-> MapIndex(map, keys[found[k]])]
         IN  FloodFill(map, Tail(queue) \o idxs,
                       visited \cup {keys[n] : n \in take},
                       clear \cup {idxs[k] : k \in 1..Len(idxs)})

\* Lines 57 and 63-72: every brick is an orphan except those the fill cleared.
MarkOrphans(map, clear) ==
    [i \in 1..Len(map) |-> [map[i] EXCEPT !.isOrphan = (i \notin clear)]]

\* Variant of line 77 without the !b.isOrphan test: any brick at the far
\* boundary counts.
ReachesFarAny(marked, maxCol) ==
    [map |-> marked,
     connected |-> \E i \in 1..Len(marked) : marked[i].columnCoordinate >= maxCol]

\* Line 77
ReachesFar(marked, maxCol) ==
    [map |-> marked,
     connected |-> \E i \in 1..Len(marked) :
                       /\ marked[i].columnCoordinate >= maxCol
                       /\ ~marked[i].isOrphan]

\* Variant of line 63 without b.isOrphan = false for the start bricks.
FillFromUnmarked(map, startBricks) ==
    FloodFill(map, startBricks,
              {BrickKey(map[startBricks[k]]) : k \in 1..Len(startBricks)}, {})

\* Lines 61-76, from the start bricks (registry indices, in order)
FillFrom(map, startBricks) ==
    FloodFill(map, startBricks,
              {BrickKey(map[startBricks[k]]) : k \in 1..Len(startBricks)},
              {startBricks[k] : k \in 1..Len(startBricks)})

StartBricks(map, minCol) ==
    SelectSeq([i \in 1..Len(map) |-> i], LAMBDA i : map[i].columnCoordinate <= minCol)

\* Variant that prunes the bricks the fill did not reach, as the explicit
\* pruning of orphans would.
AnalyzeFromPruning(map, startBricks, maxCol) ==
    IF Len(map) = 0 \/ startBricks = << >>
    THEN [map |-> << >>, connected |-> FALSE]
    ELSE ReachesFar(SelectSeq(MarkOrphans(map, FillFrom(map, startBricks)),
                              LAMBDA b : ~b.isOrphan), maxCol)

AnalyzeFrom(map, startBricks, maxCol) ==
    IF Len(map) = 0 \/ startBricks = << >>
    THEN [map |-> MarkOrphans(map, {}), connected |-> FALSE]
    ELSE ReachesFar(MarkOrphans(map, FillFrom(map, startBricks)), maxCol)

AnalyzeTopology(map, minCol, maxCol) ==
    AnalyzeFrom(map, StartBricks(map, minCol), maxCol)

----------------------------------------------------------------------------
(* updateInertFlags(): sets topLimit / bottomLimit and every brick's       *)
(* inertFromSide from its rowCoordinate.                                    *)

BottomLimitOf(height) == (height \div brickHeight) - 2

\* Variant of lines 84-85 with the two sides exchanged: a brick at a row
\* limit is inert to the side of that limit.
InertForOwnSide(row, height) ==
    IF row <= TopLimitRow THEN "top"
    ELSE IF row >= BottomLimitOf(height) THEN "bottom"
    ELSE "null"

InertFor(row, height) ==
    IF row <= TopLimitRow THEN "bottom"
    ELSE IF row >= BottomLimitOf(height) THEN "top"
    ELSE "null"

UpdateInertFlags(map, height) ==
    [i \in 1..Len(map) |->
        [map[i] EXCEPT !.inertFromSide = InertFor(map[i].rowCoordinate, height)]]

(* checkWin(): the first brick in iteration order at or past a row limit   *)
(* decides; "null" when there is none.                                      *)

\* Variant of lines 92-93 naming the side whose limit was reached.
WinOfSameSide(b, tLimit, bLimit) ==
    IF b.rowCoordinate <= tLimit THEN "top"
    ELSE IF b.rowCoordinate >= bLimit THEN "bottom"
    ELSE "null"

WinOf(b, tLimit, bLimit) ==
    IF b.rowCoordinate <= tLimit THEN "bottom"
    ELSE IF b.rowCoordinate >= bLimit THEN "top"
    ELSE "null"

CheckWin(map, tLimit, bLimit) ==
    LET hits == SelectSeq(map, LAMBDA b : WinOf(b, tLimit, bLimit) # "null")
    IN  IF hits = << >> THEN [winner |-> "null", brick |-> << >>]
        ELSE [winner |-> WinOf(Head(hits), tLimit, bLimit), brick |-> Head(hits).key]

(* addBrickAt(row, col, type): no-op on an occupied key, otherwise append  *)
(* a new Brick and refresh the inert flags.                                 *)

\* Variant without the occupied-key guard of line 129: Map.set replaces the
\* brick under the key.
AddBrickAtReplace(map, row, col, type, height) ==
    IF MapHas(map, Key(col, row))
    THEN UpdateInertFlags([i \in 1..Len(map) |->
                              IF map[i].key = Key(col, row) THEN Brick(row, col, type)
                              ELSE map[i]], height)
    ELSE UpdateInertFlags(Append(map, Brick(row, col, type)), height)

AddBrickAt(map, row, col, type, height) ==
    IF MapHas(map, Key(col, row)) THEN map
    ELSE UpdateInertFlags(Append(map, Brick(row, col, type)), height)

Min(a, b) == IF a < b THEN a ELSE b

BrickCols(map) == {map[i].columnCoordinate : i \in 1..Len(map)}

\* Variant: the boundaries follow a brick planted outside the span, as the
\* addBrickAt of the earlier iteration did.
BoundariesWidened(map, minCol, maxCol) ==
    IF map = << >> THEN <<minCol, maxCol>>
    ELSE <<Min(minCol, CHOOSE c \in BrickCols(map) : \A d \in BrickCols(map) : c <= d),
           Max(maxCol, CHOOSE c \in BrickCols(map) : \A d \in BrickCols(map) : c >= d)>>

\* Variant: the left boundary is pulled in to the first on-screen column.
BoundariesVisible(map, minCol, maxCol) == <<Max(minCol, 0), maxCol>>

\* masterMinCol and masterMaxCol once bricks were added to map: addBrickAt
\* assigns neither of them.
Boundaries(map, minCol, maxCol) == <<minCol, maxCol>>

(* initializeWall(): the ribbon, the demo brick, one analysis, the flags.  *)

ScreenW(width) == IF width = 0 THEN DefaultScreenW ELSE width

\* Variant of line 105 without the clamp to one column.
ColumnsVisibleUnclamped(width) == RoundDiv(ScreenW(width), maxBrickWidth)

ColumnsVisible(width) == Max(1, RoundDiv(ScreenW(width), maxBrickWidth))

InitMinCol == -edgeBufferCols

InitMaxCol(width) == (ColumnsVisible(width) - 1) + edgeBufferCols

BaselineRow(height) == RoundDiv(height, 2 * brickHeight)

\* Variant of lines 109-111: the on-screen columns only, no brick in the
\* edge-buffer columns.
RECURSIVE RibbonVisible(_, _, _, _, _)
RibbonVisible(map, row, c, maxCol, height) ==
    IF c > maxCol - edgeBufferCols THEN map
    ELSE RibbonVisible(IF c < 0 THEN map ELSE AddBrickAt(map, row, c, "null", height),
                       row, c + 1, maxCol, height)

\* Variant of lines 109-111: a ribbon two bricks high.
RECURSIVE RibbonTwoHigh(_, _, _, _, _)
RibbonTwoHigh(map, row, c, maxCol, height) ==
    IF c > maxCol THEN map
    ELSE RibbonTwoHigh(AddBrickAt(AddBrickAt(map, row, c, "null", height),
                                  row + 1, c, "null", height),
                       row, c + 1, maxCol, height)

RECURSIVE Ribbon(_, _, _, _, _)
Ribbon(map, row, c, maxCol, height) ==
    IF c > maxCol THEN map
    ELSE Ribbon(AddBrickAt(map, row, c, "null", height), row, c + 1, maxCol, height)

\* Lines 113-117
MarkDemo(ribbon, demoKey) ==
    [i \in 1..Len(ribbon) |->
        IF ribbon[i].key = demoKey THEN [ribbon[i] EXCEPT !.type = "demo"] ELSE ribbon[i]]

\* Lines 119-120
InitializedWall(topo, minCol, maxCol, row, height) ==
    [map |-> UpdateInertFlags(topo.map, height),
     minCol |-> minCol, maxCol |-> maxCol, baseline |-> row,
     connected |-> topo.connected]

InitializeWall(width, height) ==
    InitializedWall(
        AnalyzeTopology(
            MarkDemo(Ribbon(<< >>, BaselineRow(height), InitMinCol, InitMaxCol(width), height),
                     Key((InitMinCol + InitMaxCol(width)) \div 2, BaselineRow(height))),
            InitMinCol, InitMaxCol(width)),
        InitMinCol, InitMaxCol(width), BaselineRow(height), height)

----------------------------------------------------------------------------
(* processWallImpact(hitBrick, ballSide).  kinds[d] is the type the d-th   *)
(* random draw yields ("null" when Math.random() >= specialOnRepairChance):*)
(* draws 1..4 belong to the individual trial pass, draws 5..8 to the       *)
(* collective pass, one per candidate position.                             *)

\* Variant of line 141 with the direction reversed.
DeltaTowardsStriker(ballSide) == IF ballSide = "top" THEN -1 ELSE 1

Delta(ballSide) == IF ballSide = "top" THEN 1 ELSE -1

\* Variant of line 156 without the mortar candidates.
CandidatesSameRow(hitR, hitC, ballSide) ==
    << <<hitR, hitC - 1>>, <<hitR, hitC + 1>> >>

\* Variant of line 156 with the same-row candidates ahead of the mortar
\* candidates.
CandidatesSameRowFirst(hitR, hitC, ballSide) ==
    LET neighbors == GetMasonryNeighbors(hitR, hitC)
        mortarCandidates == SelectSeq(neighbors,
                                LAMBDA p : p[1] = hitR + Delta(ballSide))
    IN  << <<hitR, hitC - 1>>, <<hitR, hitC + 1>> >> \o mortarCandidates

Candidates(hitR, hitC, ballSide) ==
    LET neighbors == GetMasonryNeighbors(hitR, hitC)
        mortarCandidates == SelectSeq(neighbors,
                                LAMBDA p : p[1] = hitR + Delta(ballSide))
    IN  mortarCandidates \o << <<hitR, hitC - 1>>, <<hitR, hitC + 1>> >>

\* Lines 158-173: one candidate at a time, rolled back when it does not
\* reconnect.  st = [map, connected, calls, kept].
RECURSIVE TrialPass(_, _, _, _, _, _, _)
\* Variant of lines 170-172 without the roll-back of line 172.
TrialOutcomeKeeps(st, topo, cands, i, kinds, minCol, maxCol, height) ==
    IF topo.connected
    THEN [map |-> topo.map, connected |-> TRUE, calls |-> st.calls + 1,
          kept |-> st.kept \cup {i}]
    ELSE TrialPass([map |-> topo.map, connected |-> FALSE, calls |-> st.calls + 1,
                    kept |-> st.kept \cup {i}],
                   cands, i + 1, kinds, minCol, maxCol, height)

\* Lines 170-172 for candidate i, topo being the analysis with it added
TrialOutcome(st, topo, cands, i, kinds, minCol, maxCol, height) ==
    IF topo.connected
    THEN [map |-> topo.map, connected |-> TRUE, calls |-> st.calls + 1, kept |-> {i}]
    ELSE TrialPass([map |-> MapDelete(topo.map, Key(cands[i][2], cands[i][1])),
                    connected |-> FALSE, calls |-> st.calls + 1, kept |-> {}],
                   cands, i + 1, kinds, minCol, maxCol, height)

\* Variant of lines 158-173 without the skip of line 160.
TrialPassNoSkip(st, cands, i, kinds, minCol, maxCol, height) ==
    IF i > Len(cands) THEN st
    ELSE TrialOutcome(st,
             AnalyzeTopology(AddBrickAt(st.map, cands[i][1], cands[i][2],
                                        kinds[i], height),
                             minCol, maxCol),
             cands, i, kinds, minCol, maxCol, height)

TrialPass(st, cands, i, kinds, minCol, maxCol, height) ==
    IF i > Len(cands) THEN st
    ELSE IF MapHas(st.map, Key(cands[i][2], cands[i][1]))
         THEN TrialPass(st, cands, i + 1, kinds, minCol, maxCol, height)
         ELSE TrialOutcome(st,
                  AnalyzeTopology(AddBrickAt(st.map, cands[i][1], cands[i][2],
                                             kinds[i], height),
                                  minCol, maxCol),
                  cands, i, kinds, minCol, maxCol, height)

\* Lines 175-189: candidates added for good until the analyzer reports
\* connected.
RECURSIVE CollectivePass(_, _, _, _, _, _, _)
\* Variant of lines 186-187 without the break: every candidate is added.
CollectiveOutcomeNoBreak(st, topo, isNew, cands, i, kinds, minCol, maxCol, height) ==
    CollectivePass([map |-> topo.map, connected |-> topo.connected,
                    calls |-> st.calls + 1,
                    kept |-> IF isNew THEN st.kept \cup {Len(cands) + i} ELSE st.kept],
                   cands, i + 1, kinds, minCol, maxCol, height)

\* Lines 186-187 for candidate i; isNew: addBrickAt added a brick
CollectiveOutcome(st, topo, isNew, cands, i, kinds, minCol, maxCol, height) ==
    IF topo.connected
    THEN [map |-> topo.map, connected |-> TRUE, calls |-> st.calls + 1,
          kept |-> IF isNew THEN st.kept \cup {Len(cands) + i} ELSE st.kept]
    ELSE CollectivePass([map |-> topo.map, connected |-> FALSE, calls |-> st.calls + 1,
                         kept |-> IF isNew THEN st.kept \cup {Len(cands) + i}
                                  ELSE st.kept],
                        cands, i + 1, kinds, minCol, maxCol, height)

CollectivePass(st, cands, i, kinds, minCol, maxCol, height) ==
    IF i > Len(cands) THEN st
    ELSE CollectiveOutcome(st,
             AnalyzeTopology(AddBrickAt(st.map, cands[i][1], cands[i][2],
                                        kinds[Len(cands) + i], height),
                             minCol, maxCol),
             ~MapHas(st.map, Key(cands[i][2], cands[i][1])),
             cands, i, kinds, minCol, maxCol, height)

\* Variant of lines 175-189 without the collective pass.
FallbackNone(trial, cands, kinds, minCol, maxCol, height) == trial

\* Variant of lines 175-189 that walks the candidates a second time.
FallbackRepeated(trial, cands, kinds, minCol, maxCol, height) ==
    IF trial.connected THEN trial
    ELSE CollectivePass(CollectivePass(trial, cands, 1, kinds, minCol, maxCol, height),
                        cands, 1, kinds, minCol, maxCol, height)

\* Line 175: the collective pass runs only when the trial pass failed
Fallback(trial, cands, kinds, minCol, maxCol, height) ==
    IF trial.connected THEN trial
    ELSE CollectivePass(trial, cands, 1, kinds, minCol, maxCol, height)

Repair(st, cands, kinds, minCol, maxCol, height) ==
    Fallback(TrialPass(st, cands, 1, kinds, minCol, maxCol, height),
             cands, kinds, minCol, maxCol, height)

\* Lines 151-153: the analysis after the removal decides whether to repair
AfterRemoval(topo, cands, kinds, minCol, maxCol, height) ==
    IF topo.connected
    THEN [map |-> topo.map, connected |-> TRUE, calls |-> 1, kept |-> {}]
    ELSE Repair([map |-> topo.map, connected |-> FALSE, calls |-> 1, kept |-> {}],
                cands, kinds, minCol, maxCol, height)

\* Variant of line 191 that also resets the kind of every brick left.
ResolvedClearsKinds(st, type, height) ==
    [map |-> [i \in 1..Len(st.map) |->
                 [UpdateInertFlags(st.map, height)[i] EXCEPT !.type = "null"]],
     lastHit |-> type, absorbed |-> FALSE,
     connected |-> st.connected, calls |-> st.calls, kept |-> st.kept]

\* Line 191 and the values the call leaves behind
Resolved(st, type, height) ==
    [map |-> UpdateInertFlags(st.map, height), lastHit |-> type, absorbed |-> FALSE,
     connected |-> st.connected, calls |-> st.calls, kept |-> st.kept]

\* Variant of line 146 that leaves the kind of the absorbing brick.
AbsorbedKeepsKind(map, hit) ==
    [map |-> map, lastHit |-> map[hit].type,
     absorbed |-> TRUE, connected |-> FALSE, calls |-> 0, kept |-> {}]

\* Lines 145-148
Absorbed(map, hit) ==
    [map |-> [map EXCEPT ![hit].type = "null"], lastHit |-> map[hit].type,
     absorbed |-> TRUE, connected |-> FALSE, calls |-> 0, kept |-> {}]

\* The hit brick is the object at registry index hit.  Result:
\*   map, lastHit (lastHitBrickType), absorbed (the early return was taken),
\*   connected (the last value of isConnected, FALSE when absorbed),
\*   calls (analyzeTopology invocations), kept (draws whose brick remains).
ProcessWallImpact(map, hit, ballSide, kinds, minCol, maxCol, height) ==
    IF map[hit].inertFromSide = ballSide THEN Absorbed(map, hit)
    ELSE Resolved(
             AfterRemoval(
                 AnalyzeTopology(MapDelete(map, BrickKey(map[hit])), minCol, maxCol),
                 Candidates(map[hit].rowCoordinate, map[hit].columnCoordinate, ballSide),
                 kinds, minCol, maxCol, height),
             map[hit].type, height)

(* wall.update(game): clamp every brick's rowCoordinate into               *)
(* [topLimit, bottomLimit] (the Map key is left as it was), then refresh    *)
(* the inert flags.                                                         *)

ClampRow(row, tLimit, bLimit) ==
    LET r1 == IF row < tLimit THEN tLimit ELSE row
    IN  IF r1 > bLimit THEN bLimit ELSE r1

\* Variant: a brick at or past a row limit is dropped from the registry.
WallUpdatePruning(map, tLimit, bLimit, height) ==
    UpdateInertFlags(
        SelectSeq(map, LAMBDA b : b.rowCoordinate > tLimit /\ b.rowCoordinate < bLimit),
        height)

WallUpdate(map, tLimit, bLimit, height) ==
    UpdateInertFlags(
        [i \in 1..Len(map) |->
            [map[i] EXCEPT !.rowCoordinate = ClampRow(map[i].rowCoordinate, tLimit, bLimit)]],
        height)

----------------------------------------------------------------------------
(* The pending-impact queue (a Map from key to side) and the staging half  *)
(* of checkCollision, lines 260-263.  The contact geometry is abstracted:  *)
(* best is the registry index of the brick the scan selected.  w is the    *)
(* wall state [map, pend, lastHit].                                         *)

PendingHas(pend, key) == \E i \in 1..Len(pend) : pend[i].key = key

\* Variant: a list of contacts instead of a Map, every staging appended.
PendingSetAppend(pend, key, side) == Append(pend, [key |-> key, side |-> side])

\* Variant: a new coordinate is put in front of the older entries.
PendingSetFront(pend, key, side) ==
    IF PendingHas(pend, key)
    THEN [i \in 1..Len(pend) |->
             IF pend[i].key = key THEN [key |-> key, side |-> side] ELSE pend[i]]
    ELSE << [key |-> key, side |-> side] >> \o pend

PendingSet(pend, key, side) ==
    IF PendingHas(pend, key)
    THEN [i \in 1..Len(pend) |->
             IF pend[i].key = key THEN [key |-> key, side |-> side] ELSE pend[i]]
    ELSE Append(pend, [key |-> key, side |-> side])

\* Variant: checkCollision resolves the contact at once instead of staging
\* it (no power-up draws).
StageImpactDirect(w, best, side) ==
    [w EXCEPT !.map = ProcessWallImpact(w.map, best, side, [d \in 1..8 |-> "null"],
                                        masterMinCol, masterMaxCol, clientHeight).map,
              !.lastHit = w.map[best].type]

StageImpact(w, best, side) ==
    [w EXCEPT !.pend = PendingSet(@, BrickKey(w.map[best]), side),
              !.lastHit = w.map[best].type]

----------------------------------------------------------------------------
(* Wall.checkCollision(ball), lines 213-277, with its geometry.  Lengths   *)
(* (ball.x, ball.y, the brick centres, the reaches and the overlaps) are   *)
(* in half pixels, so that brick.height / 2 = 12.5 px is an integer; bw is *)
(* brickWidth in pixels.  The velocities only matter by their signs.       *)

\* Brick.updateVisualPosition, lines 13-21
CanvasX(b, bw) ==
    2 * b.columnCoordinate * bw
        + (IF Abs(b.rowCoordinate) % 2 = 1 THEN bw ELSE 0) + bw

CanvasY(b) == 2 * b.rowCoordinate * brickHeight

\* sX, sY of line 230: half the brick's extent + ball.radius + 1
Reach(half) == half + 2 * BallRadius + 2

\* ejectX, ejectY of lines 267 and 271: half the extent + ball.radius + 2
Eject(half) == half + 2 * BallRadius + 4

\* towardsX, towardsY of lines 233-234
Towards(v, d) == (v > 0 /\ d < 0) \/ (v < 0 /\ d > 0)

\* Lines 216-226: the keys of the 3x3 neighbourhood in the order of the two
\* loops, rows first.
ScanRow(bl, bw, r) ==
    LET xShift == IF Abs(r) % 2 = 1 THEN bw ELSE 0
        estCol == RoundDiv(bl.x - xShift, 2 * bw)
    IN  << Key(estCol - 1, r), Key(estCol, r), Key(estCol + 1, r) >>

ScanCells(bl, bw) ==
    LET estRow == RoundDiv(bl.y, 2 * brickHeight)
    IN  ScanRow(bl, bw, estRow - 1) \o ScanRow(bl, bw, estRow)
            \o ScanRow(bl, bw, estRow + 1)

\* Lines 229-249 for brick b: whether the contact qualifies, and its
\* penetration, bounce axis and dx.
Contact(bl, b, bw) ==
    LET dx == bl.x - CanvasX(b, bw)
        dy == bl.y - CanvasY(b)
        sX == Reach(bw)
        sY == Reach(brickHeight)
        towardsX == Towards(bl.vx, dx)
        towardsY == Towards(bl.vy, dy)
        overlapX == sX - Abs(dx)
        overlapY == sY - Abs(dy)
        smaller == IF overlapX < overlapY THEN "x" ELSE "y"
        turned == IF smaller = "x" /\ ~towardsX THEN "y" ELSE smaller
        chosenAxis == IF turned = "y" /\ ~towardsY THEN "x" ELSE turned
    IN  [qualifies |-> /\ Abs(dx) <= sX
                       /\ Abs(dy) <= sY
                       /\ towardsX \/ towardsY
                       /\ chosenAxis = "x" => towardsX
                       /\ chosenAxis = "y" => towardsY,
         penetration |-> Min(overlapX, overlapY),
         axis |-> chosenAxis,
         dx |-> dx]

\* best === null, minPenetration === Infinity (line 219)
NoBest == [idx |-> 0, penetration |-> 0, axis |-> "none", dx |-> 0]

\* Variant of line 251: the deeper contact replaces the one held.
CloserDeepest(penetration, best) ==
    best.idx = 0 \/ penetration > best.penetration

\* Line 251: penetration < minPenetration
Closer(penetration, best) ==
    best.idx = 0 \/ penetration < best.penetration

\* Lines 229-256 for the brick at registry index i, ct its contact
Better(i, ct, best) ==
    IF ct.qualifies /\ Closer(ct.penetration, best)
    THEN [idx |-> i, penetration |-> ct.penetration, axis |-> ct.axis, dx |-> ct.dx]
    ELSE best

\* Lines 221-258: the two loops over the cells still to visit; best is the
\* contact held so far, idx its registry index.
RECURSIVE ScanFrom(_, _, _, _, _)
ScanFrom(map, bl, bw, cells, best) ==
    IF cells = << >> THEN best
    ELSE IF ~MapHas(map, Head(cells))
         THEN ScanFrom(map, bl, bw, Tail(cells), best)
         ELSE ScanFrom(map, bl, bw, Tail(cells),
                       Better(MapIndex(map, Head(cells)),
                              Contact(bl, MapGet(map, Head(cells)), bw), best))

\* Variant of lines 264-273: both velocity components are reversed.
BounceBoth(bl, b, best, bw) ==
    [bl EXCEPT !.vx = -bl.vx, !.vy = -bl.vy, !.returned = "true"]

\* Lines 264-273: the bounce and the ejection out of brick b
Bounce(bl, b, best, bw) ==
    IF best.axis = "x"
    THEN [bl EXCEPT !.vx = -bl.vx,
                    !.x = CanvasX(b, bw)
                             + (IF best.dx > 0 THEN Eject(bw) ELSE -Eject(bw)),
                    !.returned = "true"]
    ELSE [bl EXCEPT !.vy = -bl.vy,
                    !.y = CanvasY(b)
                             + (IF -bl.vy > 0 THEN Eject(brickHeight)
                                              ELSE -Eject(brickHeight)),
                    !.returned = "true"]

\* the ball a call is given
Passed(bl) == [x |-> bl.x, y |-> bl.y, vx |-> bl.vx, vy |-> bl.vy, side |-> bl.side]

\* checkCollision(ball) on the wall w = [map, pend, lastHit]: the wall and
\* the ball afterwards
CheckCollisionOf(w, bl, bw) ==
    LET best == ScanFrom(w.map, bl, bw, ScanCells(bl, bw), NoBest)
    IN  IF best.idx = 0
        THEN [w |-> w, ball |-> [bl EXCEPT !.returned = "false", !.was = Passed(bl)]]
        ELSE [w |-> StageImpact(w, best.idx, bl.side),
              ball |-> [Bounce(bl, w.map[best.idx], best, bw)
                           EXCEPT !.best = BrickKey(w.map[best.idx]),
                                  !.was = Passed(bl)]]

----------------------------------------------------------------------------
(* Game.onWallHit, spawnExtraBall, removeOneBall.  g is the part of the    *)
(* game one Ball.update can change:                                         *)
(*   [w, top, bottom, aiTop, aiBottom, staged, moving]                      *)
(* moving: the ball being updated still has a non-zero velocity (reset()   *)
(* zeroes it, and checkCollision needs a velocity pointing into a brick).   *)

NewBall == [active |-> FALSE, isExtra |-> FALSE]

SpawnExtraBall(arr) == Append(arr, [active |-> TRUE, isExtra |-> TRUE])

\* index of the ball removeOneBall resets, 0 when it deactivates an extra
\* ball instead (or the array is empty)
ResetTarget(arr) ==
    IF Len(arr) = 0 THEN 0
    ELSE IF Len(arr) > 1 /\ \E i \in 1..Len(arr) : arr[i].isExtra /\ arr[i].active
         THEN 0 ELSE 1

RemoveOneBall(arr) ==
    IF Len(arr) = 0 THEN arr
    ELSE IF ResetTarget(arr) = 1 THEN [arr EXCEPT ![1].active = FALSE]
    ELSE LET first == CHOOSE i \in 1..Len(arr) :
                          /\ arr[i].isExtra /\ arr[i].active
                          /\ \A j \in 1..(i - 1) : ~(arr[j].isExtra /\ arr[j].active)
         IN  [arr EXCEPT ![first].active = FALSE]

BallsOf(g, side) == IF side = "top" THEN g.top ELSE g.bottom

WithBalls(g, side, arr) ==
    IF side = "top" THEN [g EXCEPT !.top = arr] ELSE [g EXCEPT !.bottom = arr]

\* the power-up of lines 298-310 is applied: noted with the key of the
\* contact staged last
Applied(g, side, kind) ==
    [g EXCEPT !.effects = Append(@, [key |-> g.staged[Len(g.staged)].key,
                                     kind |-> kind, side |-> side])]

OnWallHit(g, side, cur) ==
    LET isAiPlayer == IF side = "top" THEN g.aiTop ELSE g.aiBottom
        lastType == g.w.lastHit
        g1 == IF lastType = "demo"
              THEN [g EXCEPT !.aiTop = TRUE, !.aiBottom = TRUE] ELSE g
        isDemoMode == g1.aiTop /\ g1.aiBottom
        arr == BallsOf(g1, side)
    IN  IF isAiPlayer /\ ~isDemoMode THEN g1
        ELSE IF lastType = "extraBall"
             THEN Applied(WithBalls(g1, side, SpawnExtraBall(arr)), side, lastType)
        ELSE IF lastType = "removeBall"
             THEN Applied([WithBalls(g1, side, RemoveOneBall(arr))
                              EXCEPT !.moving = (g1.moving /\ ResetTarget(arr) # cur)],
                          side, lastType)
        ELSE IF lastType \in {"enlargePaddle", "shrinkPaddle"}
             THEN Applied(g1, side, lastType)
        ELSE g1

----------------------------------------------------------------------------
(* Ball.update (part_003 lines 62-127) for the ball at index cur of its    *)
(* side's array.  hits[k] is the outcome of checkCollision in sub-step k:  *)
(* 0 for no contact, otherwise the registry index of the chosen brick.      *)

RECURSIVE SubSteps(_, _, _, _, _)
SubSteps(g, side, cur, hits, k) ==
    IF k > Len(hits) THEN g
    ELSE IF hits[k] = 0 \/ hits[k] > Len(g.w.map) \/ ~g.moving
         THEN SubSteps([g EXCEPT !.checks = @ + 1], side, cur, hits, k + 1)
         ELSE LET staged == [g EXCEPT
                                !.checks = @ + 1,
                                !.w = StageImpact(g.w, hits[k], side),
                                !.staged = Append(@, [key |-> BrickKey(g.w.map[hits[k]]),
                                                      side |-> side])]
              IN  SubSteps(OnWallHit(staged, side, cur), side, cur, hits, k + 1)

\* ballArray.filter(b => b !== this)
RemoveAt(arr, cur) ==
    [i \in 1..(Len(arr) - 1) |-> IF i < cur THEN arr[i] ELSE arr[i + 1]]

\* Lines 104-126: the ball left the field.  removed: it was taken out of
\* the game's array (it was not the last ball of its side).
OffScreen(g, side, cur) ==
    LET arr == BallsOf(g, side)
    IN  IF Len(arr) > 1
        THEN [g |-> WithBalls(g, side, RemoveAt(arr, cur)), removed |-> TRUE]
        ELSE [g |-> WithBalls(g, side, [arr EXCEPT ![cur] = NewBall]),
              removed |-> FALSE]

\* Line 73: subSteps, for a whole gameSpeed
SubStepCount(gameSpeed) == Max(1, (gameSpeed + 1) \div 2)

\* Variant of lines 63-69: the parked ball is integrated like a moving one.
BallUpdateOfUnguarded(g, side, cur, hits, off) ==
    [g |-> SubSteps(g, side, cur, hits, 1), removed |-> FALSE]

\* Lines 63-69: an inactive ball is parked on its paddle and the method
\* returns before the sub-step loop (g.moving is ball.active on entry).
BallUpdateOf(g, side, cur, hits, off) ==
    LET after == IF g.moving THEN SubSteps(g, side, cur, hits, 1) ELSE g
    IN  IF off /\ after.moving THEN OffScreen(after, side, cur)
        ELSE [g |-> after, removed |-> FALSE]

\* Game.update lines 326-327
DropSpentExtras(arr) == SelectSeq(arr, LAMBDA b : ~(b.isExtra /\ ~b.active))

----------------------------------------------------------------------------
(* Random draws of processWallImpact.  A draw that lands on a brick the    *)
(* call rolls back again has no effect, so only the draws of bricks that   *)
(* stay are varied.                                                         *)

AllNull == [d \in 1..8 |-> "null"]

RECURSIVE Draws(_)
Draws(n) ==
    IF n <= 0 THEN {AllNull}
    ELSE LET less == Draws(n - 1)
         IN  less \cup {[f EXCEPT ![d] = k] : f \in less, d \in 1..8, k \in PowerUps}

SpecialCount(map) == Cardinality({i \in 1..Len(map) : map[i].type \in PowerUps})

----------------------------------------------------------------------------
(* State after new Game(canvas): the Wall constructor and resize() both    *)
(* run initializeWall on the canvas size; the game is not running.          *)

NoWin == [winner |-> "null", brick |-> << >>]

NoImpact == [status |-> "none", key |-> << >>, side |-> "null", calls |-> 0]

\* updates: Ball.update calls of the tick so far; checks: checkCollision
\* calls the latest of them made; effects: the power-ups onWallHit applied,
\* each with the key of the brick whose kind it read; atLimit: a brick was
\* at a row limit when the tick began; pushed: the sides whose staged
\* impacts the drain resolved on a brick that was not inert to them
EmptyLog == [staged |-> << >>, resolved |-> << >>, drains |-> 0,
             updates |-> 0, checks |-> 0, effects |-> << >>,
             atLimit |-> FALSE, pushed |-> {}]

LoopStart == [idx |-> 1, attached |-> TRUE, limit |-> 0]

\* no getMasonryNeighbors call has been made on its own
NoProbe == [row |-> 0, col |-> 0, pts |-> << >>]

\* no checkCollision call has been made on its own
NoBall == [x |-> 0, y |-> 0, vx |-> 0, vy |-> 0, side |-> "null", returned |-> "none",
           best |-> << >>, was |-> << >>]

\* the wall fields initializeWall assigns, w being its result
WallSet(w, width, height) ==
    /\ clientWidth' = width
    /\ clientHeight' = height
    /\ activeBrickMap' = w.map
    /\ pendingImpacts' = << >>
    /\ masterMinCol' = w.minCol
    /\ masterMaxCol' = w.maxCol
    /\ baselineMiddleRow' = w.baseline
    /\ topLimit' = TopLimitRow
    /\ bottomLimit' = BottomLimitOf(height)
    /\ topoResult' = w.connected

WallInit(width, height) == WallSet(InitializeWall(width, height), width, height)

WallIs(w, width, height) ==
    /\ clientWidth = width
    /\ clientHeight = height
    /\ activeBrickMap = w.map
    /\ pendingImpacts = << >>
    /\ masterMinCol = w.minCol
    /\ masterMaxCol = w.maxCol
    /\ baselineMiddleRow = w.baseline
    /\ topLimit = TopLimitRow
    /\ bottomLimit = BottomLimitOf(height)
    /\ topoResult = w.connected

Init ==
    /\ \E width \in Widths, height \in Heights :
          WallIs(InitializeWall(width, height), width, height)
    /\ lastHitBrickType = "null"
    /\ running = FALSE
    /\ ballsTop = << NewBall >>
    /\ ballsBottom = << NewBall >>
    /\ isAiTop = FALSE
    /\ isAiBottom = FALSE
    /\ matchesWonTop = 0
    /\ matchesWonBottom = 0
    /\ winData = NoWin
    /\ pc = "idle"
    /\ iter = LoopStart
    /\ drainIdx = 1
    /\ ticks = 0
    /\ tickLog = EmptyLog
    /\ lastImpact = NoImpact
    /\ probe = NoProbe
    /\ ball = NoBall

----------------------------------------------------------------------------
(* Handlers that run between two frames.                                    *)

\* Game.start()
Start ==
    /\ pc = "idle"
    /\ ~running
    /\ running' = TRUE
    /\ ballsTop' = << NewBall >>
    /\ ballsBottom' = << NewBall >>
    /\ WallInit(clientWidth, clientHeight)
    /\ isAiTop' = FALSE
    /\ isAiBottom' = FALSE
    /\ winData' = NoWin
    /\ lastImpact' = NoImpact
    /\ UNCHANGED <<lastHitBrickType, matchesWonTop, matchesWonBottom,
                   pc, iter, drainIdx, ticks, tickLog>>
    /\ UNCHANGED <<probe, ball>>

\* window 'resize' -> Game.resize()
Resize ==
    /\ pc = "idle"
    /\ \E width \in Widths, height \in Heights :
          /\ <<width, height>> # <<clientWidth, clientHeight>>
          /\ WallInit(width, height)
    /\ lastImpact' = NoImpact
    /\ UNCHANGED <<lastHitBrickType, gameVars, pc, iter, drainIdx, ticks, tickLog>>
    /\ UNCHANGED <<probe, ball>>

\* pointerdown / pointerup on the canvas: aim and launch the primary ball
Launch ==
    /\ pc = "idle"
    /\ \E side \in Sides :
          LET arr == IF side = "top" THEN ballsTop ELSE ballsBottom
              isAi == IF side = "top" THEN isAiTop ELSE isAiBottom
          IN  /\ Len(arr) > 0
              /\ ~arr[1].active
              /\ ~isAi
              /\ IF side = "top"
                 THEN ballsTop' = [ballsTop EXCEPT ![1].active = TRUE]
                      /\ UNCHANGED ballsBottom
                 ELSE ballsBottom' = [ballsBottom EXCEPT ![1].active = TRUE]
                      /\ UNCHANGED ballsTop
    /\ UNCHANGED <<wallVars, running, isAiTop, isAiBottom, matchesWonTop,
                   matchesWonBottom, winData, stepVars>>
    /\ UNCHANGED <<probe, ball>>

\* pointermove on one half of the canvas hands that paddle back to the player
PointerMove ==
    /\ pc = "idle"
    /\ running
    /\ \E side \in Sides :
          IF side = "top"
          THEN isAiTop /\ isAiTop' = FALSE /\ UNCHANGED isAiBottom
          ELSE isAiBottom /\ isAiBottom' = FALSE /\ UNCHANGED isAiTop
    /\ UNCHANGED <<wallVars, running, ballsTop, ballsBottom, matchesWonTop,
                   matchesWonBottom, winData, stepVars>>
    /\ UNCHANGED <<probe, ball>>

\* pointerdown on the demo brick
DemoClick ==
    /\ pc = "idle"
    /\ \E i \in 1..Len(activeBrickMap) : activeBrickMap[i].type = "demo"
    /\ ~(isAiTop /\ isAiBottom)
    /\ isAiTop' = TRUE
    /\ isAiBottom' = TRUE
    /\ UNCHANGED <<wallVars, running, ballsTop, ballsBottom, matchesWonTop,
                   matchesWonBottom, winData, stepVars>>
    /\ UNCHANGED <<probe, ball>>

----------------------------------------------------------------------------
(* Game.update(now), one step per ball update, per drained entry, and one  *)
(* for the remainder of the tick.                                           *)

\* Lines 316-320: the early return and the anti-stall refill.
BeginUpdate ==
    /\ pc = "idle"
    /\ running
    /\ ticks < MaxTicks
    /\ ticks' = ticks + 1
    /\ ballsTop' = IF Len(ballsTop) = 0 THEN << NewBall >> ELSE ballsTop
    /\ ballsBottom' = IF Len(ballsBottom) = 0 THEN << NewBall >> ELSE ballsBottom
    /\ pc' = "top"
    /\ iter' = LoopStart
    /\ tickLog' = [EmptyLog EXCEPT
                      !.atLimit = (CheckWin(activeBrickMap, topLimit, bottomLimit) # NoWin)]
    /\ UNCHANGED <<wallVars, running, isAiTop, isAiBottom, matchesWonTop,
                   matchesWonBottom, winData, drainIdx, lastImpact>>
    /\ UNCHANGED <<probe, ball>>

HitCount(hits) == Cardinality({k \in 1..Len(hits) : hits[k] # 0})

\* The for..of loop over a ball array after the ball at cur was updated:
\* a ball that removed itself shifts the rest down and detaches the loop
\* from the game's (replaced) array, so later pushes are not visited.
NextIter(it, cur, removed, len) ==
    [idx |-> IF removed THEN cur ELSE cur + 1,
     attached |-> it.attached /\ ~removed,
     limit |-> IF ~removed THEN it.limit
               ELSE IF it.attached THEN len ELSE it.limit - 1]

LoopDone(it, len) == IF it.attached THEN it.idx > len ELSE it.idx > it.limit

\* the state one Ball.update leaves; last: it ended the loop over ballsBottom
BallEffect(g, side, nxt, done, last) ==
    /\ Len(g.top) <= MaxBalls
    /\ Len(g.bottom) <= MaxBalls
    /\ activeBrickMap' = g.w.map
    /\ pendingImpacts' = g.w.pend
    /\ lastHitBrickType' = g.w.lastHit
    /\ isAiTop' = g.aiTop
    /\ isAiBottom' = g.aiBottom
    /\ ballsTop' = IF last THEN DropSpentExtras(g.top) ELSE g.top
    /\ ballsBottom' = IF last THEN DropSpentExtras(g.bottom) ELSE g.bottom
    /\ iter' = IF done THEN LoopStart ELSE nxt
    /\ pc' = IF ~done THEN side ELSE IF side = "top" THEN "bottom" ELSE "resolve"
    /\ drainIdx' = IF last THEN 1 ELSE drainIdx
    /\ tickLog' = [tickLog EXCEPT !.staged = g.staged,
                                  !.effects = g.effects,
                                  !.updates = @ + 1,
                                  !.checks = g.checks,
                                  !.drains = IF last THEN @ + 1 ELSE @]

BallLoop(g, side, nxt) ==
    BallEffect(g, side, nxt, LoopDone(nxt, Len(BallsOf(g, side))),
               LoopDone(nxt, Len(BallsOf(g, side))) /\ side = "bottom")

BallDone(r, side, cur) ==
    BallLoop(r.g, side, NextIter(iter, cur, r.removed, Len(BallsOf(r.g, side))))

GameNow(moving) ==
    [w |-> [map |-> activeBrickMap, pend |-> pendingImpacts,
            lastHit |-> lastHitBrickType],
     top |-> ballsTop, bottom |-> ballsBottom,
     aiTop |-> isAiTop, aiBottom |-> isAiBottom,
     staged |-> tickLog.staged, moving |-> moving, checks |-> 0,
     effects |-> tickLog.effects]

\* ball.gameSpeed: 0 after reset(), from minSpeed 2 upwards after launch()
\* (part_003 lines 26, 36-42), whole values up to MaxSubSteps sub-steps
GameSpeeds == {0} \cup (2..2 * MaxSubSteps)

CurrentBall == IF pc = "top" THEN ballsTop[iter.idx] ELSE ballsBottom[iter.idx]

\* Lines 323-327: b.update(this) for the next ball of the running loop; the
\* step that ends the second loop also drops the spent extra balls and
\* enters resolvePendingImpacts.
BallUpdate ==
    /\ pc \in {"top", "bottom"}
    /\ \E gameSpeed \in GameSpeeds, off \in BOOLEAN :
       \E hits \in [1..SubStepCount(gameSpeed) -> 0..Len(activeBrickMap)] :
          /\ \/ CurrentBall.active /\ gameSpeed > 0
             \/ ~CurrentBall.active /\ gameSpeed = 0 /\ hits[1] = 0 /\ ~off
          /\ Len(tickLog.staged) + HitCount(hits) <= MaxStaged
          /\ BallDone(BallUpdateOf(GameNow(CurrentBall.active), pc, iter.idx, hits, off),
                      pc, iter.idx)
    /\ UNCHANGED <<clientWidth, clientHeight, masterMinCol, masterMaxCol,
                   baselineMiddleRow, topLimit, bottomLimit, topoResult,
                   running, matchesWonTop, matchesWonBottom, winData,
                   ticks, lastImpact>>
    /\ UNCHANGED <<probe, ball>>

\* the trace of one processWallImpact call (result r) on pending entry e
ImpactRecord(r, e) ==
    [status |-> IF r.absorbed THEN "absorbed" ELSE "resolved",
     key |-> e.key, side |-> e.side, calls |-> r.calls]

SkipRecord(e) == [status |-> "skipped", key |-> e.key, side |-> e.side, calls |-> 0]

\* what one processWallImpact call (result r) on pending entry e leaves
ImpactEffect(r, e) ==
    /\ activeBrickMap' = r.map
    /\ lastHitBrickType' = r.lastHit
    /\ topoResult' = IF r.absorbed THEN topoResult ELSE r.connected
    /\ topLimit' = IF r.absorbed THEN topLimit ELSE TopLimitRow
    /\ bottomLimit' = IF r.absorbed THEN bottomLimit ELSE BottomLimitOf(clientHeight)
    /\ masterMinCol' = Boundaries(r.map, masterMinCol, masterMaxCol)[1]
    /\ masterMaxCol' = Boundaries(r.map, masterMinCol, masterMaxCol)[2]
    /\ lastImpact' = ImpactRecord(r, e)
    /\ tickLog' = [tickLog EXCEPT
                      !.resolved = Append(@, [key |-> e.key, side |-> e.side]),
                      !.pushed = IF r.absorbed THEN @ ELSE @ \cup {e.side}]

\* the random draws processWallImpact may see for this hit: power-ups only
\* on bricks that stay (kept, found with all draws null)
DrawsFor(kept) ==
    {kinds \in Draws(MaxSpecials - SpecialCount(activeBrickMap)) :
        \A d \in 1..8 : kinds[d] # "null" => d \in kept}

ImpactOn(e, hit) ==
    \E kinds \in DrawsFor(ProcessWallImpact(activeBrickMap, hit, e.side, AllNull,
                              masterMinCol, masterMaxCol, clientHeight).kept) :
        ImpactEffect(ProcessWallImpact(activeBrickMap, hit, e.side, kinds,
                         masterMinCol, masterMaxCol, clientHeight), e)

\* Variant of lines 196-197: the missing brick is treated as a plain hit
\* and lastHitBrickType is reset.
ImpactSkippedResets(e) ==
    /\ lastImpact' = SkipRecord(e)
    /\ lastHitBrickType' = "null"
    /\ UNCHANGED <<activeBrickMap, topoResult, topLimit, bottomLimit,
                   masterMinCol, masterMaxCol, tickLog>>

\* Line 196-197: no brick under the key, nothing is done
ImpactSkipped(e) ==
    /\ lastImpact' = SkipRecord(e)
    /\ UNCHANGED <<activeBrickMap, lastHitBrickType, topoResult,
                   topLimit, bottomLimit, masterMinCol, masterMaxCol, tickLog>>

\* resolvePendingImpacts, lines 195-200: one entry of the for..of loop.
ResolveNext ==
    /\ pc = "resolve"
    /\ drainIdx <= Len(pendingImpacts)
    /\ IF MapHas(activeBrickMap, pendingImpacts[drainIdx].key)
       THEN ImpactOn(pendingImpacts[drainIdx],
                     MapIndex(activeBrickMap, pendingImpacts[drainIdx].key))
       ELSE ImpactSkipped(pendingImpacts[drainIdx])
    /\ drainIdx' = drainIdx + 1
    /\ UNCHANGED <<clientWidth, clientHeight, pendingImpacts,
                   baselineMiddleRow, gameVars, pc, iter, ticks>>
    /\ UNCHANGED <<probe, ball>>

\* resolvePendingImpacts, line 201: the loop is over, the queue is cleared.
ResolveDone ==
    /\ pc = "resolve"
    /\ drainIdx > Len(pendingImpacts)
    /\ pendingImpacts' = << >>
    /\ pc' = "finish"
    /\ UNCHANGED <<clientWidth, clientHeight, activeBrickMap, masterMinCol,
                   masterMaxCol, baselineMiddleRow, topLimit, bottomLimit,
                   lastHitBrickType, topoResult, gameVars, iter, drainIdx,
                   ticks, tickLog, lastImpact>>
    /\ UNCHANGED <<probe, ball>>

PrimaryIdle(arr) == Len(arr) > 0 /\ ~arr[1].active

\* updateAI(side), lines 388-395: an idle primary ball is launched.
UpdateAI(arr) == IF PrimaryIdle(arr) THEN [arr EXCEPT ![1].active = TRUE] ELSE arr

\* Variant of lines 358-360 that counts a win for the loser as well.
WinEffectCountsBoth(winResult, aiTop, aiBottom) ==
    /\ running' = (winResult.winner = "null")
    /\ winData' = IF winResult.winner # "null" THEN winResult ELSE winData
    /\ matchesWonTop' = IF winResult.winner # "null"
                        THEN matchesWonTop + 1 ELSE matchesWonTop
    /\ matchesWonBottom' = IF winResult.winner # "null"
                           THEN matchesWonBottom + 1 ELSE matchesWonBottom
    /\ isAiTop' = IF winResult.winner # "null" THEN FALSE ELSE aiTop
    /\ isAiBottom' = IF winResult.winner # "null" THEN FALSE ELSE aiBottom

\* Lines 349-350 and gameOver, on the registry wall.update left
WinEffect(winResult, aiTop, aiBottom) ==
    /\ running' = (winResult.winner = "null")
    /\ winData' = IF winResult.winner # "null" THEN winResult ELSE winData
    /\ matchesWonTop' = IF winResult.winner = "top"
                        THEN matchesWonTop + 1 ELSE matchesWonTop
    /\ matchesWonBottom' = IF winResult.winner = "bottom"
                           THEN matchesWonBottom + 1 ELSE matchesWonBottom
    /\ isAiTop' = IF winResult.winner # "null" THEN FALSE ELSE aiTop
    /\ isAiBottom' = IF winResult.winner # "null" THEN FALSE ELSE aiBottom

\* Line 347 and what follows it
WallEffect(map, aiTop, aiBottom) ==
    /\ activeBrickMap' = map
    /\ topLimit' = TopLimitRow
    /\ bottomLimit' = BottomLimitOf(clientHeight)
    /\ WinEffect(CheckWin(map, TopLimitRow, BottomLimitOf(clientHeight)), aiTop, aiBottom)

\* Lines 332-350: AI hand-over timers, updateAI, wall.update, checkWin and
\* gameOver.  elapsedTop / elapsedBottom: more than aiThreshold ms have
\* passed since that side's last action.
\* The tick is over: its log, the impact trace and the loop positions start
\* afresh.
FinishUpdate ==
    /\ pc = "finish"
    /\ \E elapsedTop \in BOOLEAN, elapsedBottom \in BOOLEAN :
          /\ elapsedTop => (~isAiTop /\ PrimaryIdle(ballsTop))
          /\ elapsedBottom => (~isAiBottom /\ PrimaryIdle(ballsBottom))
          /\ ballsTop' = IF isAiTop \/ elapsedTop THEN UpdateAI(ballsTop) ELSE ballsTop
          /\ ballsBottom' = IF isAiBottom \/ elapsedBottom
                            THEN UpdateAI(ballsBottom) ELSE ballsBottom
          /\ WallEffect(WallUpdate(activeBrickMap, topLimit, bottomLimit, clientHeight),
                        isAiTop \/ elapsedTop, isAiBottom \/ elapsedBottom)
    /\ pc' = "idle"
    /\ iter' = LoopStart
    /\ drainIdx' = 1
    /\ tickLog' = EmptyLog
    /\ lastImpact' = NoImpact
    /\ UNCHANGED <<clientWidth, clientHeight, pendingImpacts, masterMinCol,
                   masterMaxCol, baselineMiddleRow, lastHitBrickType, topoResult,
                   ticks>>
    /\ UNCHANGED <<probe, ball>>

Next ==
    \/ Start
    \/ Resize
    \/ Launch
    \/ PointerMove
    \/ DemoClick
    \/ BeginUpdate
    \/ BallUpdate
    \/ ResolveNext
    \/ ResolveDone
    \/ FinishUpdate

Spec == Init /\ [][Next]_vars

----------------------------------------------------------------------------
(* The Wall object on its own: checkCollision, resolvePendingImpacts and   *)
(* initializeWall (through resize) called in any order, so that impacts     *)
(* accumulate over several drains.  No power-up draws: every repair brick   *)
(* is a normal brick.                                                       *)

\* resolvePendingImpacts calls explored
MaxDrains == 2

StagedIs(w) ==
    /\ pendingImpacts' = w.pend
    /\ lastHitBrickType' = w.lastHit

\* checkCollision(ball), lines 260-263: the scan selected the brick at
\* registry index best for a ball of the given side.
CheckCollision ==
    /\ pc = "idle"
    /\ ticks < MaxDrains
    /\ \E best \in 1..Len(activeBrickMap), side \in Sides :
          /\ \/ PendingHas(pendingImpacts, BrickKey(activeBrickMap[best]))
             \/ Len(pendingImpacts) < MaxStaged
          /\ StagedIs(StageImpact([map |-> activeBrickMap, pend |-> pendingImpacts,
                                   lastHit |-> lastHitBrickType], best, side))
    /\ UNCHANGED <<clientWidth, clientHeight, activeBrickMap, masterMinCol,
                   masterMaxCol, baselineMiddleRow, topLimit, bottomLimit,
                   topoResult, gameVars, stepVars>>
    /\ UNCHANGED <<probe, ball>>

\* Lines 195-200, the whole loop.  st = [map, lastHit, connected, limits, last]
RECURSIVE Drain(_, _, _, _, _, _)
Processed(st, r, pend, i, minCol, maxCol, height) ==
    Drain([map |-> r.map, lastHit |-> r.lastHit,
           connected |-> IF r.absorbed THEN st.connected ELSE r.connected,
           limits |-> IF r.absorbed THEN st.limits
                      ELSE <<TopLimitRow, BottomLimitOf(height)>>,
           last |-> ImpactRecord(r, pend[i])],
          pend, i + 1, minCol, maxCol, height)

Drain(st, pend, i, minCol, maxCol, height) ==
    IF i > Len(pend) THEN st
    ELSE IF MapHas(st.map, pend[i].key)
         THEN Processed(st,
                  ProcessWallImpact(st.map, MapIndex(st.map, pend[i].key), pend[i].side,
                                    AllNull, minCol, maxCol, height),
                  pend, i, minCol, maxCol, height)
         ELSE Drain([st EXCEPT !.last = SkipRecord(pend[i])],
                    pend, i + 1, minCol, maxCol, height)

Drained(st) ==
    /\ activeBrickMap' = st.map
    /\ lastHitBrickType' = st.lastHit
    /\ topoResult' = st.connected
    /\ topLimit' = st.limits[1]
    /\ bottomLimit' = st.limits[2]
    /\ masterMinCol' = Boundaries(st.map, masterMinCol, masterMaxCol)[1]
    /\ masterMaxCol' = Boundaries(st.map, masterMinCol, masterMaxCol)[2]
    /\ lastImpact' = st.last
    /\ pendingImpacts' = << >>

\* resolvePendingImpacts(), lines 194-202.  On an empty queue the call
\* changes nothing.
ResolvePendingImpacts ==
    /\ pc = "idle"
    /\ ticks < MaxDrains
    /\ pendingImpacts # << >>
    /\ Drained(Drain([map |-> activeBrickMap, lastHit |-> lastHitBrickType,
                      connected |-> topoResult, limits |-> <<topLimit, bottomLimit>>,
                      last |-> lastImpact],
                     pendingImpacts, 1, masterMinCol, masterMaxCol, clientHeight))
    /\ ticks' = ticks + 1
    /\ UNCHANGED <<clientWidth, clientHeight,
                   baselineMiddleRow, gameVars, pc, iter, drainIdx, tickLog>>
    /\ UNCHANGED <<probe, ball>>

WallNext ==
    \/ CheckCollision
    \/ ResolvePendingImpacts
    \/ Resize

WallSpec == Init /\ [][WallNext]_vars

----------------------------------------------------------------------------
(* analyzeTopology() as a function of the registry and the two boundaries: *)
(* every set of bricks on a GridRows x GridCols patch of the grid, every    *)
(* choice of the boundaries on it, and repeated calls.                      *)

GridRows == 3

GridCols == 4

\* consecutive analyzeTopology calls
MaxCalls == 2

GridSize == GridRows * GridCols

\* the n-th cell of the patch, rows from TopLimitRow, columns from 0
GridBrick(n) == Brick(TopLimitRow + ((n - 1) \div GridCols), (n - 1) % GridCols, "null")

GridBricks(present) ==
    SelectSeq([n \in 1..GridSize |-> GridBrick(n)],
              LAMBDA b : present[(b.rowCoordinate - TopLimitRow) * GridCols
                                 + b.columnCoordinate + 1])

TopoInit ==
    /\ \E present \in [1..GridSize -> BOOLEAN] :
          activeBrickMap = GridBricks(present)
    /\ masterMinCol \in 0..1
    /\ masterMaxCol \in (GridCols - 2)..(GridCols - 1)
    /\ clientWidth = GridCols * maxBrickWidth
    /\ clientHeight = (GridRows + 2 * TopLimitRow) * brickHeight
    /\ pendingImpacts = << >>
    /\ baselineMiddleRow = TopLimitRow + 1
    /\ topLimit = TopLimitRow
    /\ bottomLimit = GridRows + 2 * TopLimitRow - 2
    /\ topoResult = FALSE
    /\ lastHitBrickType = "null"
    /\ running = FALSE
    /\ ballsTop = << NewBall >>
    /\ ballsBottom = << NewBall >>
    /\ isAiTop = FALSE
    /\ isAiBottom = FALSE
    /\ matchesWonTop = 0
    /\ matchesWonBottom = 0
    /\ winData = NoWin
    /\ pc = "idle"
    /\ iter = LoopStart
    /\ drainIdx = 1
    /\ ticks = 0
    /\ tickLog = EmptyLog
    /\ lastImpact = NoImpact
    /\ probe = NoProbe
    /\ ball = NoBall

AnalysisIs(r) ==
    /\ activeBrickMap' = r.map
    /\ topoResult' = r.connected

\* one analyzeTopology() call
Analyze ==
    /\ ticks < MaxCalls
    /\ AnalysisIs(AnalyzeTopology(activeBrickMap, masterMinCol, masterMaxCol))
    /\ ticks' = ticks + 1
    /\ UNCHANGED <<clientWidth, clientHeight, pendingImpacts, masterMinCol,
                   masterMaxCol, baselineMiddleRow, topLimit, bottomLimit,
                   lastHitBrickType, gameVars, pc, iter, drainIdx, tickLog,
                   lastImpact>>
    /\ UNCHANGED <<probe, ball>>

TopoNext == Analyze

TopoSpec == TopoInit /\ [][TopoNext]_vars

-----------------------------------------------------------------------------
(* getMasonryNeighbors(row, col) as a function of its own: the coordinate  *)
(* is any pair in -MaxCoord..MaxCoord, negative rows and both parities     *)
(* included; the call records the returned pts array.                      *)

MaxCoord == 5

Coords == (0 - MaxCoord)..MaxCoord

\* the Game and its loop right after construction
GameConstructed ==
    /\ lastHitBrickType = "null"
    /\ running = FALSE
    /\ ballsTop = << NewBall >>
    /\ ballsBottom = << NewBall >>
    /\ isAiTop = FALSE
    /\ isAiBottom = FALSE
    /\ matchesWonTop = 0
    /\ matchesWonBottom = 0
    /\ winData = NoWin
    /\ pc = "idle"
    /\ iter = LoopStart
    /\ drainIdx = 1
    /\ ticks = 0
    /\ tickLog = EmptyLog
    /\ lastImpact = NoImpact

NeighborInit ==
    /\ \E width \in Widths, height \in Heights :
          WallIs(InitializeWall(width, height), width, height)
    /\ GameConstructed
    /\ probe \in [row : Coords, col : Coords, pts : {<< >>}]
    /\ ball = NoBall

GetNeighbors ==
    /\ probe.pts = << >>
    /\ probe' = [probe EXCEPT !.pts = GetMasonryNeighbors(probe.row, probe.col)]
    /\ UNCHANGED <<wallVars, gameVars, stepVars, ball>>

NeighborNext == GetNeighbors

NeighborSpec == NeighborInit /\ [][NeighborNext]_vars

-----------------------------------------------------------------------------
(* The Wall methods as functions of the registry: one call of              *)
(* processWallImpact, addBrickAt or checkWin on every set of bricks of a    *)
(* PatchRows x PatchCols patch that fills the band between the two row      *)
(* limits, and on the freshly initialized ribbon of a WideColumns-column    *)
(* canvas.                                                                  *)

PatchRows == 3

PatchCols == 3

WideColumns == 5

PatchSize == PatchRows * PatchCols

\* a canvas height whose band of rows is the patch: topLimit is its first
\* row and bottomLimit its last
PatchHeight == (TopLimitRow + PatchRows + 1) * brickHeight

PatchBrick(n) == Brick(TopLimitRow + ((n - 1) \div PatchCols), (n - 1) % PatchCols, "null")

PatchBricks(present) ==
    SelectSeq([n \in 1..PatchSize |-> PatchBrick(n)],
              LAMBDA b : present[(b.rowCoordinate - TopLimitRow) * PatchCols
                                 + b.columnCoordinate + 1])

\* the wall fields when the registry is map on a canvas of the given size,
\* the bricks carrying the flags of the last analysis and of the row limits
PatchWallIs(map, width, height, minCol, maxCol) ==
    /\ clientWidth = width
    /\ clientHeight = height
    /\ activeBrickMap = UpdateInertFlags(AnalyzeTopology(map, minCol, maxCol).map, height)
    /\ pendingImpacts = << >>
    /\ masterMinCol = minCol
    /\ masterMaxCol = maxCol
    /\ baselineMiddleRow = BaselineRow(height)
    /\ topLimit = TopLimitRow
    /\ bottomLimit = BottomLimitOf(height)
    /\ topoResult = AnalyzeTopology(map, minCol, maxCol).connected

PatchInit ==
    /\ \/ \E present \in [1..PatchSize -> BOOLEAN] :
             PatchWallIs(PatchBricks(present), PatchCols * maxBrickWidth, PatchHeight,
                         0, PatchCols - 1)
       \/ \E height \in Heights :
             WallIs(InitializeWall(WideColumns * maxBrickWidth, height),
                    WideColumns * maxBrickWidth, height)
    /\ GameConstructed
    /\ probe = NoProbe
    /\ ball = NoBall

\* the draws of one processWallImpact call: at most one special brick, the
\* kind standing for the four power-up kinds, which the method treats alike
PatchDraws == {AllNull} \cup {[AllNull EXCEPT ![d] = "extraBall"] : d \in 1..8}

\* processWallImpact(hitBrick, ballSide) on any brick of the registry
ImpactCall ==
    /\ ticks = 0
    /\ \E hit \in 1..Len(activeBrickMap), side \in Sides, kinds \in PatchDraws :
          ImpactEffect(ProcessWallImpact(activeBrickMap, hit, side, kinds,
                                         masterMinCol, masterMaxCol, clientHeight),
                       [key |-> activeBrickMap[hit].key, side |-> side])
    /\ ticks' = 1
    /\ UNCHANGED <<clientWidth, clientHeight, pendingImpacts, baselineMiddleRow,
                   gameVars, pc, iter, drainIdx, probe, ball>>

AddRecord(map, row, col) ==
    [status |-> IF MapHas(map, Key(col, row)) THEN "occupied" ELSE "added",
     key |-> Key(col, row), side |-> "null", calls |-> 0]

\* addBrickAt(row, col, type) on any coordinate of the patch
AddBrickCall ==
    /\ ticks = 0
    /\ \E n \in 1..PatchSize, type \in {"null", "extraBall"} :
          /\ activeBrickMap' = AddBrickAt(activeBrickMap, PatchBrick(n).rowCoordinate,
                                          PatchBrick(n).columnCoordinate, type,
                                          clientHeight)
          /\ lastImpact' = AddRecord(activeBrickMap, PatchBrick(n).rowCoordinate,
                                     PatchBrick(n).columnCoordinate)
    /\ masterMinCol' = Boundaries(activeBrickMap', masterMinCol, masterMaxCol)[1]
    /\ masterMaxCol' = Boundaries(activeBrickMap', masterMinCol, masterMaxCol)[2]
    /\ ticks' = 1
    /\ UNCHANGED <<clientWidth, clientHeight, pendingImpacts, baselineMiddleRow,
                   topLimit, bottomLimit, lastHitBrickType, topoResult,
                   gameVars, pc, iter, drainIdx, tickLog, probe, ball>>

\* checkWin() on the registry
CheckWinCall ==
    /\ ticks = 0
    /\ winData' = CheckWin(activeBrickMap, topLimit, bottomLimit)
    /\ ticks' = 1
    /\ UNCHANGED <<wallVars, running, ballsTop, ballsBottom, isAiTop, isAiBottom,
                   matchesWonTop, matchesWonBottom, pc, iter, drainIdx, tickLog,
                   lastImpact, probe, ball>>

PatchNext ==
    \/ ImpactCall
    \/ AddBrickCall
    \/ CheckWinCall

PatchSpec == PatchInit /\ [][PatchNext]_vars

----------------------------------------------------------------------------
(* The Wall driven through its public methods by any caller: contacts are  *)
(* staged, processWallImpact may be called directly on a brick, and        *)
(* resolvePendingImpacts drains entry by entry.  A direct call can remove   *)
(* a brick that has an entry in the queue, which the game itself never     *)
(* does.                                                                    *)

\* processWallImpact(hitBrick, ballSide) called by the caller, not by a drain
DirectImpact == pc = "idle" /\ ImpactCall

\* resolvePendingImpacts() is entered: the for..of loop starts (line 195)
BeginDrain ==
    /\ pc = "idle"
    /\ pendingImpacts # << >>
    /\ pc' = "resolve"
    /\ drainIdx' = 1
    /\ UNCHANGED <<wallVars, gameVars, iter, ticks, tickLog, lastImpact, probe, ball>>

ApiNext ==
    \/ CheckCollision
    \/ DirectImpact
    \/ BeginDrain
    \/ ResolveNext
    \/ ResolveDone

ApiSpec == Init /\ [][ApiNext]_vars

----------------------------------------------------------------------------
(* initializeWall as a function of the canvas size: the constructed game   *)
(* is resized to every width from a collapsed canvas (0) to two bricks,    *)
(* where the fallback width and the clamp of the column count apply.       *)

CanvasWidths == 0..2 * maxBrickWidth

\* Game.resize() -> wall.initializeWall() on a canvas of another size
CanvasResize ==
    /\ \E width \in CanvasWidths, height \in Heights :
          /\ <<width, height>> # <<clientWidth, clientHeight>>
          /\ WallInit(width, height)
    /\ UNCHANGED <<lastHitBrickType, gameVars, stepVars, probe, ball>>

CanvasNext == CanvasResize

CanvasSpec == Init /\ [][CanvasNext]_vars

----------------------------------------------------------------------------
(* checkCollision as a function of the registry and the ball: one call on  *)
(* every set of bricks of the first two rows of the patch, for a ball on a *)
(* grid of positions around those bricks, moving in any direction, with    *)
(* the queue empty or holding the entry of an earlier contact.             *)

\* this.brickWidth = screenW / this.columnsVisible (line 106), a whole
\* number of pixels on the canvases of the model
BrickWidth(width) == ScreenW(width) \div ColumnsVisible(width)

\* ball.x and ball.y in half pixels: 45..105 px and 90..125 px
BallXs == {30 * k : k \in 3..7}

BallYs == {10 * k : k \in 18..25}

\* ball.vx, ball.vy: only the signs matter to the method
BallSpeeds == {-2, 0, 2}

\* the queue between two drains: empty, or the entry an earlier contact of
\* a top ball with the first brick left
Earlier(map) ==
    {<< >>} \cup {<<[key |-> map[i].key, side |-> "top"]>> : i \in {1} \cap DOMAIN map}

CollisionInit ==
    /\ \E present \in [1..PatchSize -> BOOLEAN] :
          /\ \A n \in 2 * PatchCols + 1..PatchSize : ~present[n]
          /\ activeBrickMap = UpdateInertFlags(PatchBricks(present), PatchHeight)
    /\ clientWidth = PatchCols * maxBrickWidth
    /\ clientHeight = PatchHeight
    /\ pendingImpacts \in Earlier(activeBrickMap)
    /\ masterMinCol = 0
    /\ masterMaxCol = PatchCols - 1
    /\ baselineMiddleRow = BaselineRow(PatchHeight)
    /\ topLimit = TopLimitRow
    /\ bottomLimit = BottomLimitOf(PatchHeight)
    /\ topoResult = AnalyzeTopology(activeBrickMap, 0, PatchCols - 1).connected
    /\ GameConstructed
    /\ probe = NoProbe
    /\ ball \in [x : BallXs, y : BallYs, vx : BallSpeeds, vy : BallSpeeds \ {0},
                 side : Sides, returned : {"none"}, best : {<< >>}, was : {<< >>}]

\* wall.checkCollision(ball)
CollisionCall ==
    /\ ball.returned = "none"
    /\ \E r \in {CheckCollisionOf([map |-> activeBrickMap, pend |-> pendingImpacts,
                                   lastHit |-> lastHitBrickType],
                                  ball, BrickWidth(clientWidth))} :
          /\ pendingImpacts' = r.w.pend
          /\ lastHitBrickType' = r.w.lastHit
          /\ ball' = r.ball
    /\ UNCHANGED <<clientWidth, clientHeight, activeBrickMap, masterMinCol,
                   masterMaxCol, baselineMiddleRow, topLimit, bottomLimit,
                   topoResult, gameVars, stepVars, probe>>

CollisionNext == CollisionCall

CollisionSpec == CollisionInit /\ [][CollisionNext]_vars

----------------------------------------------------------------------------
(* The game on a canvas too short for its ribbon: Math.round(height / 2 /   *)
(* brickHeight) lies above the top limit, so the ribbon is built outside    *)
(* the band of rows and the clamp of wall.update has rows to move.          *)

\* 150 px: the baseline row is 3, topLimit and bottomLimit are both 4
ShortHeights == {6 * brickHeight}

ShortInit ==
    /\ \E width \in Widths, height \in ShortHeights :
          WallIs(InitializeWall(width, height), width, height)
    /\ GameConstructed
    /\ probe = NoProbe
    /\ ball = NoBall

ShortSpec == ShortInit /\ [][Next]_vars

----------------------------------------------------------------------------
(* The game with a power-up brick in the wall: the state a match is in     *)
(* after a tick in which a top ball removed the ribbon brick of column 1    *)
(* on the widest canvas whose baseline row is inside the band, and the      *)
(* repair planted the two mortar bricks below it, the first one drawing a   *)
(* power-up.  The top ball is still in play.                                *)

EarlierHeight == CHOOSE h \in Heights : TopLimitRow < BaselineRow(h)

EarlierWidth == MaxColumns * maxBrickWidth

\* processWallImpact of that earlier tick; draw 5 is the first brick of the
\* collective pass
EarlierRepair(kind) ==
    ProcessWallImpact(InitializeWall(EarlierWidth, EarlierHeight).map,
                      MapIndex(InitializeWall(EarlierWidth, EarlierHeight).map,
                               Key(1, BaselineRow(EarlierHeight))),
                      "top", [AllNull EXCEPT ![5] = kind],
                      InitMinCol, InitMaxCol(EarlierWidth), EarlierHeight)

PowerUpInit ==
    /\ \E kind \in PowerUps :
          /\ activeBrickMap = WallUpdate(EarlierRepair(kind).map, TopLimitRow,
                                         BottomLimitOf(EarlierHeight), EarlierHeight)
          /\ topoResult = EarlierRepair(kind).connected
    /\ clientWidth = EarlierWidth
    /\ clientHeight = EarlierHeight
    /\ pendingImpacts = << >>
    /\ masterMinCol = InitMinCol
    /\ masterMaxCol = InitMaxCol(EarlierWidth)
    /\ baselineMiddleRow = BaselineRow(EarlierHeight)
    /\ topLimit = TopLimitRow
    /\ bottomLimit = BottomLimitOf(EarlierHeight)
    /\ lastHitBrickType = "null"
    /\ running = TRUE
    /\ ballsTop = << [NewBall EXCEPT !.active = TRUE] >>
    /\ ballsBottom = << NewBall >>
    /\ isAiTop = FALSE
    /\ isAiBottom = FALSE
    /\ matchesWonTop = 0
    /\ matchesWonBottom = 0
    /\ winData = NoWin
    /\ pc = "idle"
    /\ iter = LoopStart
    /\ drainIdx = 1
    /\ ticks = 0
    /\ tickLog = EmptyLog
    /\ lastImpact = NoImpact
    /\ probe = NoProbe
    /\ ball = NoBall

PowerUpSpec == PowerUpInit /\ [][Next]_vars

----------------------------------------------------------------------------
(* Properties.                                                              *)

\* analyzeTopology() called on the current registry
Connected == AnalyzeTopology(activeBrickMap, masterMinCol, masterMaxCol).connected

KeySeq(map) == [i \in 1..Len(map) |-> map[i].key]

\* C1: when processWallImpact has returned from an impact on a brick that
\* was not inert to the striking side, the last analyzeTopology() of the
\* call returned true and a further analyzeTopology() returns true (this
\* processWallImpact has no anomaly report to fall back on).
C1_PostResolveConnected ==
    lastImpact.status = "resolved" => (topoResult /\ Connected)

\* an impact whose removal cut the wall and whose single-candidate trials
\* all failed, so that the collective pass had to reconnect it
C1_Witness ==
    /\ pc = "resolve"
    /\ lastImpact.status = "resolved"
    /\ lastImpact.calls >= 5

\* C2: from the ribbon of initializeWall, after any sequence of stagings
\* from either side and drains, analyzeTopology() returns true whenever
\* resolvePendingImpacts has returned (and in the ribbon itself).
C2_ConnectedAfterDrains ==
    pendingImpacts = << >> => (topoResult /\ Connected)

\* two drains, the last impact repaired by the collective pass, and the
\* wall two rows away from its baseline
C2_Witness ==
    /\ ticks = MaxDrains
    /\ lastImpact.status = "resolved"
    /\ lastImpact.calls >= 5
    /\ \E i \in 1..Len(activeBrickMap) :
          Abs(activeBrickMap[i].rowCoordinate - baselineMiddleRow) >= 2

\* C3: while the balls of a tick are being updated no impact is resolved
\* and the registry does not change; once the drain has begun no ball is
\* updated; the tick ends after exactly one resolvePendingImpacts call.
C3_StagingBeforeResolution ==
    [][ /\ pc \in {"top", "bottom"} =>
              /\ activeBrickMap' = activeBrickMap
              /\ tickLog'.resolved = << >>
              /\ lastImpact' = lastImpact
              /\ tickLog.drains = 0
        /\ pc = "resolve" => pc' \in {"resolve", "finish"}
        /\ pc \in {"resolve", "finish"} => tickLog.drains = 1
      ]_vars

\* a tick in which a top ball and a bottom ball each staged a contact and
\* both were resolved in the drain
C3_Witness ==
    /\ pc = "finish"
    /\ Len(tickLog.staged) = 2
    /\ tickLog.staged[1].side # tickLog.staged[2].side
    /\ Len(tickLog.resolved) = 2

\* the side of the most recent staging of key in this tick
LastSide(staged, key) ==
    staged[CHOOSE k \in 1..Len(staged) :
               /\ staged[k].key = key
               /\ \A m \in (k + 1)..Len(staged) : staged[m].key # key].side

\* C4: the pending queue never holds two entries for one coordinate; until
\* the drain ends, every coordinate staged in the tick has its entry, with
\* the side of its most recent staging; a coordinate is resolved at most
\* once in a tick, for that side.
C4_OneEntryPerCoordinate ==
    /\ \A i, j \in 1..Len(pendingImpacts) :
          pendingImpacts[i].key = pendingImpacts[j].key => i = j
    /\ pc \in {"top", "bottom", "resolve"} =>
          \A k \in 1..Len(tickLog.staged) :
             \E i \in 1..Len(pendingImpacts) :
                pendingImpacts[i] = [key |-> tickLog.staged[k].key,
                                     side |-> LastSide(tickLog.staged,
                                                       tickLog.staged[k].key)]
    /\ \A i, j \in 1..Len(tickLog.resolved) :
          tickLog.resolved[i].key = tickLog.resolved[j].key => i = j
    /\ \A i \in 1..Len(tickLog.resolved) :
          tickLog.resolved[i].side = LastSide(tickLog.staged, tickLog.resolved[i].key)

\* one coordinate staged twice in a tick, from both sides, resolved once
C4_Witness ==
    /\ pc = "finish"
    /\ Len(tickLog.staged) = 2
    /\ tickLog.staged[1].key = tickLog.staged[2].key
    /\ tickLog.staged[1].side # tickLog.staged[2].side
    /\ Len(tickLog.resolved) = 1

\* the coordinates staged in this tick, in the order of their first staging
FirstStaged(staged) ==
    SelectSeq([k \in 1..Len(staged) |-> [key |-> staged[k].key, first |-> k]],
              LAMBDA e : \A m \in 1..(e.first - 1) : staged[m].key # e.key)

InertHitNext ==
    /\ pc = "resolve"
    /\ drainIdx <= Len(pendingImpacts)
    /\ MapHas(activeBrickMap, pendingImpacts[drainIdx].key)
    /\ MapGet(activeBrickMap, pendingImpacts[drainIdx].key).inertFromSide
          = pendingImpacts[drainIdx].side

\* C6: resolving an impact on a brick inert to the striking side keeps the
\* registry's coordinates (none added, none removed), runs no analysis and
\* no repair, leaves the brick with no kind and every other brick as it was.
C6_InertHitAbsorbed ==
    [][ (InertHitNext /\ drainIdx' = drainIdx + 1) =>
           /\ KeySeq(activeBrickMap') = KeySeq(activeBrickMap)
           /\ lastImpact'.calls = 0
           /\ topoResult' = topoResult
           /\ \A i \in 1..Len(activeBrickMap) :
                 IF activeBrickMap[i].key = pendingImpacts[drainIdx].key
                 THEN activeBrickMap'[i] = [activeBrickMap[i] EXCEPT !.type = "null"]
                 ELSE activeBrickMap'[i] = activeBrickMap[i]
      ]_vars

\* the demo brick, inert on a ribbon at the row limit, absorbed a hit and
\* lost its kind
C6_Witness ==
    /\ lastImpact.status = "absorbed"
    /\ lastHitBrickType = "demo"
    /\ MapHas(activeBrickMap, lastImpact.key)
    /\ MapGet(activeBrickMap, lastImpact.key).type = "null"

\* a drain of a single entry, staged from this side on a brick of the
\* registry, is about to run
SoleImpactFrom(side) ==
    /\ Len(pendingImpacts) = 1
    /\ pendingImpacts[1].side = side
    /\ MapHas(activeBrickMap, pendingImpacts[1].key)

\* the row of the brick that entry is about
SoleImpactRow == MapGet(activeBrickMap, pendingImpacts[1].key).rowCoordinate

SoleImpactAbsorbed ==
    /\ KeySeq(activeBrickMap') = KeySeq(activeBrickMap)
    /\ lastImpact'.status = "absorbed"

Adjacent(a, b) ==
    \E n \in 1..6 :
        GetMasonryNeighbors(a.rowCoordinate, a.columnCoordinate)[n]
            = <<b.rowCoordinate, b.columnCoordinate>>

\* the registry indices reachable from those in from, through adjacent
\* bricks of the registry
RECURSIVE Closure(_, _)
Closure(map, from) ==
    IF \E j \in (1..Len(map)) \ from : \E i \in from : Adjacent(map[i], map[j])
    THEN Closure(map, from \cup {j \in 1..Len(map) :
                                    \E i \in from : Adjacent(map[i], map[j])})
    ELSE from

NearBricks == {i \in 1..Len(activeBrickMap) :
                  activeBrickMap[i].columnCoordinate <= masterMinCol}

FarBricks == {i \in 1..Len(activeBrickMap) :
                 activeBrickMap[i].columnCoordinate >= masterMaxCol}

\* C8: analyzeTopology returns true exactly when some brick with column >=
\* masterMaxCol is reachable through masonry adjacency from some brick with
\* column <= masterMinCol; false on an empty registry and when no brick
\* has column <= masterMinCol.
C8_TrueIffFarReachable ==
    ticks >= 1 =>
       /\ topoResult = (\E a \in NearBricks, b \in FarBricks :
                           b \in Closure(activeBrickMap, {a}))
       /\ Len(activeBrickMap) = 0 => ~topoResult
       /\ NearBricks = {} => ~topoResult

\* a connected wall beside bricks that are not part of it
C8_Witness ==
    /\ ticks >= 1
    /\ topoResult
    /\ \E i \in 1..Len(activeBrickMap) : activeBrickMap[i].isOrphan
    /\ \E i \in FarBricks : activeBrickMap[i].isOrphan

\* C9 (as the code has it): after analyzeTopology a brick's orphan flag is
\* false exactly when the brick is reachable through masonry adjacency from
\* some brick with column <= masterMinCol.
C9_NonOrphanIffReachableFromNear ==
    ticks >= 1 =>
       \A i \in 1..Len(activeBrickMap) :
          (~activeBrickMap[i].isOrphan) = (i \in Closure(activeBrickMap, NearBricks))

\* a wall that does not reach the far boundary, with a brick the fill
\* reached beyond the start bricks
C9_Witness ==
    /\ ticks >= 1
    /\ ~topoResult
    /\ FarBricks # {}
    /\ \E i \in 1..Len(activeBrickMap) :
          /\ ~activeBrickMap[i].isOrphan
          /\ activeBrickMap[i].columnCoordinate > masterMinCol

\* C9 as stated: after analyzeTopology a brick's orphan flag is false
\* exactly when the brick lies on a path of adjacent bricks from a brick
\* with column <= masterMinCol to a brick with column >= masterMaxCol.
C9_NonOrphanIffOnCrossingPath ==
    ticks >= 1 =>
       \A i \in 1..Len(activeBrickMap) :
          (~activeBrickMap[i].isOrphan)
             = (\E a \in NearBricks, b \in FarBricks :
                   /\ i \in Closure(activeBrickMap, {a})
                   /\ b \in Closure(activeBrickMap, {i}))

\* C10: an analyzeTopology call adds and removes no brick, and a call that
\* directly follows another one returns the same boolean and leaves every
\* brick, its orphan flag included, as it was.
C10_AnalysisIdempotent ==
    [][ ticks' = ticks + 1 =>
           /\ KeySeq(activeBrickMap') = KeySeq(activeBrickMap)
           /\ ticks >= 1 => /\ activeBrickMap' = activeBrickMap
                            /\ topoResult' = topoResult
      ]_vars

\* two calls in a row on a registry with orphans and non-orphans
C10_Witness ==
    /\ ticks = MaxCalls
    /\ \E i \in 1..Len(activeBrickMap) : activeBrickMap[i].isOrphan
    /\ \E i \in 1..Len(activeBrickMap) : ~activeBrickMap[i].isOrphan

-----------------------------------------------------------------------------
(* C11: the masonry neighbour relation is symmetric and 6-regular: for     *)
(* every coordinate A, of either row parity and with negative rows         *)
(* included, getMasonryNeighbors(A) holds exactly six pairwise distinct    *)
(* coordinates, none of them A, and A is among getMasonryNeighbors(N) for   *)
(* each N of them.                                                         *)

SeqSet(seq) == {seq[i] : i \in 1..Len(seq)}

C11_NeighborsSymmetricSixRegular ==
    probe.pts # << >> =>
        /\ Len(probe.pts) = 6
        /\ Cardinality(SeqSet(probe.pts)) = 6
        /\ <<probe.row, probe.col>> \notin SeqSet(probe.pts)
        /\ \A n \in SeqSet(probe.pts) :
              <<probe.row, probe.col>> \in SeqSet(GetMasonryNeighbors(n[1], n[2]))

C11_Witness ==
    /\ probe.pts # << >>
    /\ probe.row < 0
    /\ probe.row % 2 = 1

-----------------------------------------------------------------------------
(* C12: the registry never holds two bricks for the same (row, col), and    *)
(* addBrickAt on an occupied coordinate changes nothing: the call leaves    *)
(* the registry as it was, and a processWallImpact call, whose collective   *)
(* pass offers every candidate to addBrickAt again, leaves every brick      *)
(* other than the struck one in place with its coordinate and its kind.     *)

NoTwoBricks(map) ==
    \A i, j \in 1..Len(map) :
        (/\ map[i].rowCoordinate = map[j].rowCoordinate
         /\ map[i].columnCoordinate = map[j].columnCoordinate) => i = j

\* brick b is in map under its key, at its coordinate and with its kind
SameBrickIn(map, b) ==
    \E j \in 1..Len(map) :
        /\ map[j].key = b.key
        /\ map[j].rowCoordinate = b.rowCoordinate
        /\ map[j].columnCoordinate = b.columnCoordinate
        /\ map[j].type = b.type

C12_OccupiedAddRefused ==
    [][/\ NoTwoBricks(activeBrickMap')
       /\ lastImpact'.status = "occupied" => activeBrickMap' = activeBrickMap
       /\ lastImpact'.status \in {"added", "absorbed", "resolved"} =>
             \A i \in 1..Len(activeBrickMap) :
                 activeBrickMap[i].key # lastImpact'.key =>
                     SameBrickIn(activeBrickMap', activeBrickMap[i])]_vars

C12_Witness ==
    /\ lastImpact.status = "occupied"
    /\ MapHas(activeBrickMap, lastImpact.key)

-----------------------------------------------------------------------------
(* C13: a non-inert impact on a width-1 neck: the struck brick has its two  *)
(* same-row neighbours, the rows above and below it hold no brick, and the  *)
(* wall is connected with it and not without it.  The analysis after the    *)
(* removal reports disconnected and processWallImpact then plants one or    *)
(* two bricks, each a mortar candidate of the row on the far side of the    *)
(* ball, after which the analyzer reports connected.  When the row two      *)
(* beyond the struck one on that side holds no brick either, as on a flat   *)
(* ribbon, both trial bricks are rolled back (each touches one same-row     *)
(* neighbour only) and the collective pass plants exactly the two mortar    *)
(* candidates.                                                              *)

\* the brick at index i is a width-1 neck of the wall
NeckAt(map, i, minCol, maxCol) ==
    /\ MapHas(map, Key(map[i].columnCoordinate - 1, map[i].rowCoordinate))
    /\ MapHas(map, Key(map[i].columnCoordinate + 1, map[i].rowCoordinate))
    /\ \A j \in 1..Len(map) :
          /\ map[j].rowCoordinate # map[i].rowCoordinate - 1
          /\ map[j].rowCoordinate # map[i].rowCoordinate + 1
    /\ AnalyzeTopology(map, minCol, maxCol).connected
    /\ ~AnalyzeTopology(MapDelete(map, map[i].key), minCol, maxCol).connected

\* the step is a processWallImpact call that removed the neck at index i
NeckStruck(i) ==
    /\ lastImpact'.status = "resolved"
    /\ lastImpact'.key = activeBrickMap[i].key
    /\ NeckAt(activeBrickMap, i, masterMinCol, masterMaxCol)

\* the coordinates <<row, col>> that are in the registry after the step only
PlantedCoords ==
    {<<activeBrickMap'[j].rowCoordinate, activeBrickMap'[j].columnCoordinate>> :
        j \in {k \in 1..Len(activeBrickMap') :
                 ~MapHas(activeBrickMap, activeBrickMap'[k].key)}}

MortarOf(i) ==
    SubSeq(Candidates(activeBrickMap[i].rowCoordinate,
                      activeBrickMap[i].columnCoordinate, lastImpact'.side), 1, 2)

\* no brick in the row two beyond the struck brick, on the far side
FarRowEmpty(i) ==
    \A j \in 1..Len(activeBrickMap) :
        activeBrickMap[j].rowCoordinate #
            activeBrickMap[i].rowCoordinate + 2 * Delta(lastImpact'.side)

C13_NeckRepairedByMortarBricks ==
    [][\A i \in 1..Len(activeBrickMap) :
          NeckStruck(i) =>
              /\ lastImpact'.calls > 1
              /\ ~MapHas(activeBrickMap', activeBrickMap[i].key)
              /\ PlantedCoords \subseteq SeqSet(MortarOf(i))
              /\ Cardinality(PlantedCoords) \in {1, 2}
              /\ Len(activeBrickMap') = Len(activeBrickMap) - 1 + Cardinality(PlantedCoords)
              /\ FarRowEmpty(i) =>
                    /\ lastImpact'.calls = 5
                    /\ PlantedCoords = SeqSet(MortarOf(i))
                    /\ Cardinality(PlantedCoords) = 2
              /\ topoResult'
              /\ AnalyzeTopology(activeBrickMap', masterMinCol', masterMaxCol').connected]_vars

\* a neck of the patch was struck from the top and both mortar bricks of
\* the row below are in the registry
C13_Witness ==
    /\ lastImpact.status = "resolved"
    /\ lastImpact.calls = 5
    /\ lastImpact.side = "top"
    /\ lastImpact.key = Key(1, TopLimitRow + 1)
    /\ KeySeq(activeBrickMap) = << Key(0, TopLimitRow + 1), Key(2, TopLimitRow + 1),
                                   Key(1, TopLimitRow + 2), Key(2, TopLimitRow + 2) >>

\* C13 as stated: the repair adds exactly one brick
C13_NeckRepairedByOneBrick ==
    [][\A i \in 1..Len(activeBrickMap) :
          NeckStruck(i) =>
              /\ lastImpact'.calls > 1
              /\ Len(activeBrickMap') = Len(activeBrickMap)
              /\ Cardinality(PlantedCoords) = 1
              /\ PlantedCoords \subseteq
                     SeqSet(Candidates(activeBrickMap[i].rowCoordinate,
                                       activeBrickMap[i].columnCoordinate,
                                       lastImpact'.side))
              /\ topoResult']_vars

-----------------------------------------------------------------------------
(* C14: on the freshly initialized flat ribbon, the middle column being at  *)
(* least 3 columns away from both boundaries, a single impact from the top  *)
(* on the middle-column brick removes that brick and makes the analyzer     *)
(* report disconnected, the ribbon being one brick high; the repair plants  *)
(* the two mortar candidates of the row below and the analyzer reports      *)
(* connected again.                                                         *)

MidCol == (masterMinCol + masterMaxCol) \div 2

\* the step is a processWallImpact call from the top on the middle-column
\* brick (index i) of the ribbon initializeWall leaves
RibbonMiddleStruck(i) ==
    /\ lastImpact'.status = "resolved"
    /\ lastImpact'.side = "top"
    /\ lastImpact'.key = activeBrickMap[i].key
    /\ activeBrickMap = InitializeWall(clientWidth, clientHeight).map
    /\ pendingImpacts = << >>
    /\ activeBrickMap[i].columnCoordinate = MidCol
    /\ MidCol - masterMinCol >= 3
    /\ masterMaxCol - MidCol >= 3

C14_RibbonMiddleRepaired ==
    [][\A i \in 1..Len(activeBrickMap) :
          RibbonMiddleStruck(i) =>
              /\ ~MapHas(activeBrickMap', activeBrickMap[i].key)
              /\ lastImpact'.calls = 5
              /\ PlantedCoords = SeqSet(MortarOf(i))
              /\ Cardinality(PlantedCoords) = 2
              /\ topoResult']_vars

C14_Witness ==
    /\ clientWidth = WideColumns * maxBrickWidth
    /\ lastImpact.status = "resolved"
    /\ lastImpact.side = "top"
    /\ lastImpact.key = Key(MidCol, baselineMiddleRow)
    /\ MidCol - masterMinCol >= 3
    /\ masterMaxCol - MidCol >= 3
    /\ ~MapHas(activeBrickMap, lastImpact.key)
    /\ Len(activeBrickMap) = masterMaxCol - masterMinCol + 2

\* C14 as stated: the wall stays connected and nothing is planted
C14_RibbonMiddleNoRepair ==
    [][\A i \in 1..Len(activeBrickMap) :
          RibbonMiddleStruck(i) =>
              /\ ~MapHas(activeBrickMap', activeBrickMap[i].key)
              /\ lastImpact'.calls = 1
              /\ PlantedCoords = {}
              /\ topoResult']_vars

-----------------------------------------------------------------------------
(* C15: checkWin reports the side opposite to the limit reached.  When some *)
(* brick has row >= bottomLimit and none has row <= topLimit it returns     *)
(* winner 'top' with a brick of row >= bottomLimit; when some brick has     *)
(* row <= topLimit and none has row >= bottomLimit it returns winner        *)
(* 'bottom' with a brick of row <= topLimit; it returns null exactly when   *)
(* no brick is at or past either limit.                                     *)

AtTopLimit == {i \in 1..Len(activeBrickMap) : activeBrickMap[i].rowCoordinate <= topLimit}

AtBottomLimit ==
    {i \in 1..Len(activeBrickMap) : activeBrickMap[i].rowCoordinate >= bottomLimit}

\* the brick checkWin returned is one of the registry indices in among
WinBrickIn(among) == \E i \in among : activeBrickMap[i].key = winData.brick

\* the step taken was the checkWin call
CheckWinReturned == ticks = 1 /\ lastImpact.status = "none"

C15_WinnerOppositeToLimit ==
    CheckWinReturned =>
        /\ (AtBottomLimit # {} /\ AtTopLimit = {}) =>
               (winData.winner = "top" /\ WinBrickIn(AtBottomLimit))
        /\ (AtTopLimit # {} /\ AtBottomLimit = {}) =>
               (winData.winner = "bottom" /\ WinBrickIn(AtTopLimit))
        /\ winData.winner = "null" <=> (AtTopLimit = {} /\ AtBottomLimit = {})

C15_Witness ==
    /\ CheckWinReturned
    /\ AtBottomLimit # {}
    /\ AtTopLimit = {}
    /\ winData.winner = "top"

-----------------------------------------------------------------------------
(* C16: after initializeWall, whatever the registry and the canvas width    *)
(* were before, the registry holds exactly one brick for each column        *)
(* masterMinCol..masterMaxCol at row baselineMiddleRow and no brick at any   *)
(* other coordinate.                                                        *)

CoordsOf(map) == {<<map[i].rowCoordinate, map[i].columnCoordinate>> : i \in 1..Len(map)}

\* the registry is the flat ribbon between the two boundaries
IsRibbon(map, minCol, maxCol, row) ==
    /\ CoordsOf(map) = {<<row, c>> : c \in minCol..maxCol}
    /\ Len(map) = maxCol - minCol + 1
    /\ \A i \in 1..Len(map) : map[i].key = Key(map[i].columnCoordinate, map[i].rowCoordinate)

\* the step is a resize(), which runs initializeWall on the new canvas size
Reinitialized == <<clientWidth', clientHeight'>> # <<clientWidth, clientHeight>>

C16_InitializeLeavesRibbon ==
    [][Reinitialized =>
          IsRibbon(activeBrickMap', masterMinCol', masterMaxCol', baselineMiddleRow')]_vars

\* a wall that impacts had changed was initialized again
C16_Witness ==
    /\ ticks >= 1
    /\ lastImpact.status = "none"
    /\ pendingImpacts = << >>
    /\ IsRibbon(activeBrickMap, masterMinCol, masterMaxCol, baselineMiddleRow)

-----------------------------------------------------------------------------
(* C17: between two initializations, under any staging, resolution or       *)
(* per-tick update, masterMinCol never increases and masterMaxCol never     *)
(* decreases.                                                               *)

\* the step is a start(), which runs initializeWall on the same canvas size
Started == ~running /\ running'

C17_BoundariesNeverNarrow ==
    [][~(Reinitialized \/ Started) =>
          /\ masterMinCol' <= masterMinCol
          /\ masterMaxCol' >= masterMaxCol]_vars

\* a repair has planted bricks and the boundaries are those of initializeWall
C17_Witness ==
    /\ lastImpact.status = "resolved"
    /\ lastImpact.calls > 1
    /\ masterMinCol = InitMinCol
    /\ masterMaxCol = InitMaxCol(clientWidth)

-----------------------------------------------------------------------------
(* C18: a processWallImpact call moves neither boundary, whether its repair *)
(* leaves a brick planted at a column below masterMinCol or above           *)
(* masterMaxCol or rolls its trial bricks back: addBrickAt assigns neither  *)
(* boundary, so the span need not cover every column that holds a repair    *)
(* brick.                                                                   *)

\* the columns outside the span that hold a brick
OutsideCols(map, minCol, maxCol) == {c \in BrickCols(map) : c < minCol \/ c > maxCol}

-----------------------------------------------------------------------------
(* C19: the set of coordinates in the registry changes only in a            *)
(* processWallImpact call (a step of the drain) and in initializeWall.  A   *)
(* ball update, whose checkCollision stages the contact, leaves the         *)
(* registry and every wall field other than the pending queue and           *)
(* lastHitBrickType as they were; the wall.update of the end of the tick    *)
(* adds no brick and removes none.                                          *)

-----------------------------------------------------------------------------
(* C20: processWallImpact returns on every registry and for every brick of  *)
(* it and either side; one call runs analyzeTopology at most 9 times (once  *)
(* after the removal, at most 4 times in the trial pass and at most 4 times *)
(* in the collective pass) and leaves at most 4 bricks that were not there  *)
(* before.                                                                  *)

\* the call returns for every brick of the registry and either side
ImpactReturns ==
    \A hit \in 1..Len(activeBrickMap), side \in Sides :
        ProcessWallImpact(activeBrickMap, hit, side, AllNull,
                          masterMinCol, masterMaxCol, clientHeight).calls \in 0..9

C20_ImpactBounded ==
    /\ [](ticks = 0 => ImpactReturns)
    /\ [][lastImpact'.status \in {"absorbed", "resolved"} =>
             /\ lastImpact'.calls <= 9
             /\ Cardinality(PlantedCoords) <= 4
             /\ Len(activeBrickMap') <= Len(activeBrickMap) + 3]_vars

\* a call that ran all 9 analyses: every trial brick was rolled back and the
\* collective pass planted all four candidates
C20_Witness ==
    /\ lastImpact.status = "resolved"
    /\ lastImpact.calls = 9
    /\ \A p \in SeqSet(Candidates(lastImpact.key[2], lastImpact.key[1], lastImpact.side)) :
          MapHas(activeBrickMap, Key(p[2], p[1]))

\* the bricks of the registry whose contact with the passed ball bl
\* qualifies: within the 3x3 neighbourhood, overlapping, approached
Qualifying(bl) ==
    {i \in 1..Len(activeBrickMap) :
        /\ \E n \in 1..9 : ScanCells(bl, BrickWidth(clientWidth))[n] = activeBrickMap[i].key
        /\ Contact(bl, activeBrickMap[i], BrickWidth(clientWidth)).qualifies}

PenetrationOf(bl, i) ==
    Contact(bl, activeBrickMap[i], BrickWidth(clientWidth)).penetration

\* scan order: rows ascending, then columns ascending
ScannedBefore(i, j) ==
    \/ activeBrickMap[i].rowCoordinate < activeBrickMap[j].rowCoordinate
    \/ /\ activeBrickMap[i].rowCoordinate = activeBrickMap[j].rowCoordinate
       /\ activeBrickMap[i].columnCoordinate < activeBrickMap[j].columnCoordinate

CollisionReturned == ball.returned # "none"

\* C21: among the qualifying contacts of one scan checkCollision chooses the
\* one with the smallest penetration (the smaller of its two overlaps); of
\* several contacts with that penetration it chooses the first in scan
\* order, rows ascending and then columns ascending.  It returns false
\* exactly when no contact qualifies.
C21_ShallowestContactChosen ==
    CollisionReturned =>
        /\ ball.returned = "false" <=> Qualifying(ball.was) = {}
        /\ ball.returned = "true" =>
              \E i \in Qualifying(ball.was) :
                 /\ activeBrickMap[i].key = ball.best
                 /\ \A j \in Qualifying(ball.was) \ {i} :
                       \/ PenetrationOf(ball.was, i) < PenetrationOf(ball.was, j)
                       \/ /\ PenetrationOf(ball.was, i) = PenetrationOf(ball.was, j)
                          /\ ScannedBefore(i, j)

\* two contacts qualified; the chosen one is the shallower although the
\* deeper one is scanned first
C21_Witness ==
    /\ ball.returned = "true"
    /\ \E i, j \in Qualifying(ball.was) :
          /\ activeBrickMap[i].key = ball.best
          /\ PenetrationOf(ball.was, i) < PenetrationOf(ball.was, j)
          /\ ScannedBefore(j, i)

\* the claim as stated: the contact with the deepest penetration is chosen,
\* the first in scan order among equals
C21_DeepestContactChosen ==
    ball.returned = "true" =>
        \E i \in Qualifying(ball.was) :
           /\ activeBrickMap[i].key = ball.best
           /\ \A j \in Qualifying(ball.was) \ {i} :
                 \/ PenetrationOf(ball.was, i) > PenetrationOf(ball.was, j)
                 \/ /\ PenetrationOf(ball.was, i) = PenetrationOf(ball.was, j)
                    /\ ScannedBefore(i, j)

\* a step in which checkCollision ran and returned r
CollisionStep(r) == ball.returned = "none" /\ ball'.returned = r

\* the queue q2 is the queue q1 after one set(key, side): the entry is
\* there, nothing else changed, at most one entry is new
OneEntryStaged(q1, q2, key, side) ==
    /\ \E n \in 1..Len(q2) : q2[n] = [key |-> key, side |-> side]
    /\ \A n \in 1..Len(q1) : q1[n].key # key => \E m \in 1..Len(q2) : q2[m] = q1[n]
    /\ \A m \in 1..Len(q2) : q2[m].key # key => \E n \in 1..Len(q1) : q1[n] = q2[m]
    /\ \A m, n \in 1..Len(q2) : q2[m].key = q2[n].key => m = n
    /\ Len(q2) = Len(q1) + (IF PendingHas(q1, key) THEN 0 ELSE 1)

\* C24: a checkCollision call that finds no qualifying contact returns false
\* and leaves the ball's position and velocity, the pending queue and
\* lastHitBrickType as they were; a call that returns true has staged one
\* pending entry, the chosen brick's coordinate with the ball's side, and
\* has reversed exactly one velocity component, leaving the other.
C24_MissChangesNothingHitStagesOne ==
    [][/\ (ball.returned = "none" /\ ball'.returned # "none"
              /\ Qualifying(Passed(ball)) = {}) => ball'.returned = "false"
       /\ CollisionStep("false") =>
             /\ Passed(ball') = Passed(ball)
             /\ pendingImpacts' = pendingImpacts
             /\ lastHitBrickType' = lastHitBrickType
       /\ CollisionStep("true") =>
             /\ OneEntryStaged(pendingImpacts, pendingImpacts', ball'.best, ball.side)
             /\ MapHas(activeBrickMap, ball'.best)
             /\ \/ ball'.vx = -ball.vx /\ ball.vx # 0 /\ ball'.vy = ball.vy
                \/ ball'.vy = -ball.vy /\ ball.vy # 0 /\ ball'.vx = ball.vx
      ]_vars

\* a hit staged next to the entry of an earlier contact, which is kept
C24_Witness ==
    /\ ball.returned = "true"
    /\ Len(pendingImpacts) = 2
    /\ pendingImpacts[2] = [key |-> ball.best, side |-> ball.side]
    /\ ball.was.vx # 0
    /\ ball.vx = -ball.was.vx
    /\ ball.vy = ball.was.vy

\* a step that is one Ball.update call of the running tick
BallUpdated == pc \in {"top", "bottom"} /\ tickLog'.updates = tickLog.updates + 1

KindDeliveredTwice(m, n) ==
    /\ m < n
    /\ tickLog.staged[m].key = tickLog.staged[n].key
    /\ tickLog.staged[m].side # tickLog.staged[n].side
    /\ MapHas(activeBrickMap, tickLog.staged[n].key)
    /\ MapGet(activeBrickMap, tickLog.staged[n].key).type # "null"
    /\ MapGet(activeBrickMap, tickLog.staged[n].key).inertFromSide = tickLog.staged[n].side

\* C23: the kind of a brick that is inert to the striking side reaches the
\* game layer for exactly one hit: while the balls of a tick are updated
\* (nothing is resolved yet) no two staged hits on such a brick have both
\* read its kind.
C23_KindDeliveredOnce ==
    pc \in {"top", "bottom", "resolve"} /\ drainIdx = 1 =>
        \A m, n \in 1..Len(tickLog.staged) : ~KindDeliveredTwice(m, n)

\* the drain is at an entry whose coordinate holds no brick
AtStaleEntry ==
    /\ pc = "resolve"
    /\ drainIdx <= Len(pendingImpacts)
    /\ ~MapHas(activeBrickMap, pendingImpacts[drainIdx].key)

\* the drain is at an entry whose brick is in the registry
AtLiveEntry ==
    /\ pc = "resolve"
    /\ drainIdx <= Len(pendingImpacts)
    /\ MapHas(activeBrickMap, pendingImpacts[drainIdx].key)

\* C25: a pending entry whose coordinate holds no brick when the drain
\* reaches it is passed over: the registry, lastHitBrickType, the limits and
\* the queue stay as they are and the loop moves to the next entry; every
\* entry whose brick is there is handed to processWallImpact, also after a
\* passed-over one, and the drain ends by clearing the queue.
C25_StaleEntrySkipped ==
    [][/\ (AtStaleEntry /\ drainIdx' # drainIdx) =>
             /\ activeBrickMap' = activeBrickMap
             /\ pendingImpacts' = pendingImpacts
             /\ lastHitBrickType' = lastHitBrickType
             /\ <<topLimit', bottomLimit', topoResult'>> = <<topLimit, bottomLimit, topoResult>>
             /\ pc' = "resolve"
             /\ drainIdx' = drainIdx + 1
             /\ lastImpact'.status = "skipped"
       /\ (AtLiveEntry /\ drainIdx' # drainIdx) =>
             /\ lastImpact'.status \in {"resolved", "absorbed"}
             /\ lastImpact'.key = pendingImpacts[drainIdx].key
             /\ lastImpact'.side = pendingImpacts[drainIdx].side
             /\ drainIdx' = drainIdx + 1
       /\ (pc = "resolve" /\ pc' # "resolve") =>
             drainIdx > Len(pendingImpacts) /\ pendingImpacts' = << >>
      ]_vars

\* a direct call (the first resolved impact) removed the brick of the first
\* entry; the drain passed that entry over and has resolved the second
C25_Witness ==
    /\ pc = "resolve"
    /\ drainIdx = 3
    /\ lastImpact.status = "resolved"
    /\ lastImpact.key = pendingImpacts[2].key
    /\ ~MapHas(activeBrickMap, pendingImpacts[1].key)
    /\ ticks = 1
    /\ Len(tickLog.resolved) = 2
    /\ tickLog.resolved[1].key = pendingImpacts[1].key
    /\ tickLog.resolved[2].key = pendingImpacts[2].key

\* columnsVisible as the boundaries record it (lines 108-109)
ColumnsOnScreen == masterMaxCol - edgeBufferCols + 1

\* the divisor of line 106 is at least one and the dividend is positive:
\* brickWidth = screenW / columnsVisible is a finite positive number
BrickWidthFinite ==
    /\ ColumnsOnScreen >= 1
    /\ clientWidth > 0 \/ DefaultScreenW > 0

\* C26: initializeWall never divides by zero: on every canvas width the
\* column count is at least one, brickWidth is finite and positive and the
\* boundaries are the integers -edgeBufferCols and columnsVisible - 1 +
\* edgeBufferCols, with one ribbon brick per column between them.  A canvas
\* of width zero is laid out as one of the fallback width 800 (13 columns);
\* the clamp to one column applies to a positive width below half a brick.
C26_ColumnsAtLeastOne ==
    /\ BrickWidthFinite
    /\ masterMinCol = -edgeBufferCols
    /\ masterMaxCol \in Int
    /\ Len(activeBrickMap) = masterMaxCol - masterMinCol + 1
    /\ clientWidth = 0 => ColumnsOnScreen = RoundDiv(DefaultScreenW, maxBrickWidth)
    /\ (clientWidth > 0 /\ 2 * clientWidth < maxBrickWidth) => ColumnsOnScreen = 1

\* the wall of a canvas of width zero
C26_Witness ==
    /\ clientWidth = 0
    /\ masterMaxCol = 13
    /\ Len(activeBrickMap) = 15

\* the claim as stated: a zero-width surface gets one visible column
C26_ZeroWidthOneColumn ==
    clientWidth = 0 => (BrickWidthFinite /\ ColumnsOnScreen = 1)

-----------------------------------------------------------------------------
(* The repair passes of one processWallImpact call, stated on the step of   *)
(* the call: the struck brick is the one at index i of the registry before  *)
(* the step, struck from side.                                              *)

\* the step is a processWallImpact call that removed the brick at index i,
\* struck from side
Struck(i, side) ==
    /\ lastImpact' # lastImpact
    /\ lastImpact'.status = "resolved"
    /\ lastImpact'.key = activeBrickMap[i].key
    /\ lastImpact'.side = side

\* the row the striker pushes bricks into: +1 for a top ball, -1 for a
\* bottom ball
MortarRow(hitR, side) == hitR + (IF side = "top" THEN 1 ELSE -1)

\* the candidate list: the two masonry neighbours in the mortar row (the
\* one at the struck column first), then the same-row left and the same-row
\* right neighbour
RepairOrder(hitR, hitC, side) ==
    << <<MortarRow(hitR, side), hitC>>,
       <<MortarRow(hitR, side), IF hitR % 2 = 1 THEN hitC + 1 ELSE hitC - 1>>,
       <<hitR, hitC - 1>>,
       <<hitR, hitC + 1>> >>

RepairOrderOf(i, side) ==
    RepairOrder(activeBrickMap[i].rowCoordinate, activeBrickMap[i].columnCoordinate, side)

\* the registry with the struck brick taken out
Gap(i) == MapDelete(activeBrickMap, activeBrickMap[i].key)

Unoccupied(i, side, n) ==
    ~MapHas(Gap(i), Key(RepairOrderOf(i, side)[n][2], RepairOrderOf(i, side)[n][1]))

\* the bricks for the unoccupied candidates numbered in ns, in list order
Planted(order, free) ==
    [k \in 1..Len(SelectSeq(order, LAMBDA p : p \in free)) |->
        Brick(SelectSeq(order, LAMBDA p : p \in free)[k][1],
              SelectSeq(order, LAMBDA p : p \in free)[k][2], "null")]

\* the wall is connected once the unoccupied candidates among those
\* numbered in ns are added to the gap
ReconnectedBy(i, side, ns) ==
    AnalyzeTopology(
        Gap(i) \o Planted(RepairOrderOf(i, side),
                          {RepairOrderOf(i, side)[n] : n \in {m \in ns : Unoccupied(i, side, m)}}),
        masterMinCol, masterMaxCol).connected

\* candidate n alone, being unoccupied, reconnects the wall
SingleRepair(i, side, n) == Unoccupied(i, side, n) /\ ReconnectedBy(i, side, {n})

\* C27: when the removal of the struck brick cuts the wall and some single
\* unoccupied candidate reconnects it, the call ends with exactly one new
\* brick, at the first such candidate in the order mortar, same-row left,
\* same-row right; every candidate tried before it is gone again, and the
\* analyses made are the one after the removal and one per candidate tried.
C27_FirstSingleCandidateKept ==
    [][\A i \in 1..Len(activeBrickMap), side \in Sides, n \in 1..4 :
          (/\ Struck(i, side)
           /\ ~ReconnectedBy(i, side, {})
           /\ SingleRepair(i, side, n)
           /\ \A m \in 1..(n - 1) : ~SingleRepair(i, side, m)) =>
              /\ PlantedCoords = {RepairOrderOf(i, side)[n]}
              /\ Len(activeBrickMap') = Len(activeBrickMap)
              /\ lastImpact'.calls
                    = 1 + Cardinality({m \in 1..n : Unoccupied(i, side, m)})
              /\ topoResult']_vars

\* a same-row candidate repaired the wall after the two mortar trial bricks
\* had been rolled back
C27_Witness ==
    /\ lastImpact.status = "resolved"
    /\ lastImpact.calls = 4
    /\ Len(tickLog.resolved) = 1
    /\ MapHas(activeBrickMap, Key(lastImpact.key[1] - 1, lastImpact.key[2]))
    /\ \A p \in SeqSet(Candidates(lastImpact.key[2], lastImpact.key[1], lastImpact.side)) :
          p[1] # lastImpact.key[2] => ~MapHas(activeBrickMap, Key(p[2], p[1]))

\* no single unoccupied candidate reconnects the wall cut at brick i
NoSingleRepair(i, side) ==
    /\ ~ReconnectedBy(i, side, {})
    /\ \A n \in 1..4 : ~SingleRepair(i, side, n)

\* the shortest prefix of the candidate list whose unoccupied candidates,
\* added together, reconnect the wall has length k (the whole list when no
\* prefix does)
ShortestPrefix(i, side, k) ==
    /\ \A j \in 1..(k - 1) : ~ReconnectedBy(i, side, 1..j)
    /\ k < 4 => ReconnectedBy(i, side, 1..k)

\* C28: the collective pass runs only when no single candidate reconnected
\* the wall; it adds the candidates in list order, keeps them, and stops at
\* the first analysis that reports connected: the bricks new after the call
\* are the unoccupied candidates of the shortest prefix whose joint addition
\* reconnects the wall, or all unoccupied candidates when none does.
C28_CollectivePrefixKept ==
    [][\A i \in 1..Len(activeBrickMap), side \in Sides :
          /\ (Struck(i, side) /\ ~NoSingleRepair(i, side)) =>
                /\ lastImpact'.calls <= 5
                /\ Cardinality(PlantedCoords) <= 1
          /\ \A k \in 1..4 :
                (Struck(i, side) /\ NoSingleRepair(i, side) /\ ShortestPrefix(i, side, k)) =>
                   /\ PlantedCoords
                         = {RepairOrderOf(i, side)[m] : m \in {n \in 1..k : Unoccupied(i, side, n)}}
                   /\ lastImpact'.calls
                         = 1 + Cardinality({n \in 1..4 : Unoccupied(i, side, n)}) + k
                   /\ topoResult' = ReconnectedBy(i, side, 1..k)]_vars

\* the collective pass stopped after its third candidate: three bricks are
\* new, the fourth candidate was not added
C28_Witness ==
    /\ lastImpact.status = "resolved"
    /\ lastImpact.calls = 8
    /\ Len(tickLog.resolved) = 1
    /\ topoResult
    /\ ~MapHas(activeBrickMap, Key(lastImpact.key[1] + 1, lastImpact.key[2]))

\* the coordinates a repair of the hit at (hitR, hitC) may fill: the two
\* masonry neighbours in the row away from the striker and the two same-row
\* neighbours
RepairCells(hitR, hitC, side) ==
    {p \in ((hitR - 1)..(hitR + 1)) \X ((hitC - 1)..(hitC + 1)) :
        \/ p[1] = hitR /\ p[2] # hitC
        \/ /\ p[1] = MortarRow(hitR, side)
           /\ p[2] \in {hitC, IF hitR % 2 = 1 THEN hitC + 1 ELSE hitC - 1}}

\* C29: every brick a processWallImpact call adds lies in the row away from
\* the striker (hitR + 1 for a top ball, hitR - 1 for a bottom ball) at one
\* of the two masonry neighbours of the struck brick, or in the struck row
\* at column hitC - 1 or hitC + 1; none lies in the row towards the striker,
\* and an absorbed hit adds nothing.
C29_RepairAwayFromStriker ==
    [][/\ \A i \in 1..Len(activeBrickMap), side \in Sides :
             Struck(i, side) =>
                /\ PlantedCoords \subseteq
                      RepairCells(activeBrickMap[i].rowCoordinate,
                                  activeBrickMap[i].columnCoordinate, side)
                /\ \A p \in PlantedCoords :
                      p[1] # 2 * activeBrickMap[i].rowCoordinate
                                - MortarRow(activeBrickMap[i].rowCoordinate, side)
       /\ (lastImpact' # lastImpact /\ lastImpact'.status = "absorbed") =>
             PlantedCoords = {}]_vars

\* a bottom ball's hit was repaired by the two mortar bricks of the row
\* above, planted by the collective pass
C29_Witness ==
    /\ lastImpact.status = "resolved"
    /\ lastImpact.side = "bottom"
    /\ lastImpact.calls = 7
    /\ Len(tickLog.resolved) = 1
    /\ topoResult
    /\ MapHas(activeBrickMap, Key(lastImpact.key[1], lastImpact.key[2] - 1))
    /\ ~MapHas(activeBrickMap, Key(lastImpact.key[1] - 1, lastImpact.key[2]))
    /\ ~MapHas(activeBrickMap, Key(lastImpact.key[1] + 1, lastImpact.key[2]))

\* the keys of map in insertion order
KeysOf(map) == [j \in 1..Len(map) |-> map[j].key]

\* C30: a resolved impact on a non-inert brick leaves the struck coordinate
\* empty and removes no other brick that was there before the call: every
\* brick present before the call except the struck one is still present
\* under its key, at its coordinate, with its kind and in its place in the
\* insertion order, so whatever the failed trials deleted had been added
\* during the same call.
C30_OnlyStruckBrickRemoved ==
    [][\A i \in 1..Len(activeBrickMap), side \in Sides :
           Struck(i, side) =>
              /\ ~MapHas(activeBrickMap', activeBrickMap[i].key)
              /\ <<activeBrickMap[i].rowCoordinate,
                   activeBrickMap[i].columnCoordinate>> \notin CoordsOf(activeBrickMap')
              /\ \A j \in 1..Len(activeBrickMap) :
                    j # i => SameBrickIn(activeBrickMap', activeBrickMap[j])
              /\ KeysOf(SelectSeq(activeBrickMap',
                                  LAMBDA b : MapHas(activeBrickMap, b.key)))
                    = KeysOf(Gap(i))
              /\ Len(activeBrickMap')
                    = Len(activeBrickMap) - 1 + Cardinality(PlantedCoords)]_vars

\* a top ball's hit went through a failed trial and an occupied candidate:
\* both same-row neighbours of the gap are in the registry and the repair
\* took three analyses after the removal
C30_Witness ==
    /\ lastImpact.status = "resolved"
    /\ lastImpact.side = "top"
    /\ lastImpact.calls = 4
    /\ Len(tickLog.resolved) = 1
    /\ ~MapHas(activeBrickMap, lastImpact.key)
    /\ MapHas(activeBrickMap, Key(lastImpact.key[1] - 1, lastImpact.key[2]))
    /\ MapHas(activeBrickMap, Key(lastImpact.key[1] + 1, lastImpact.key[2]))

-----------------------------------------------------------------------------
(* Derived brick state: the inert flag, the orphan flag, the row band and  *)
(* the registry key.                                                        *)

\* the flag the stored row limits give a brick of that row
FlagOfRow(row) ==
    IF row <= topLimit THEN "bottom"
    ELSE IF row >= bottomLimit THEN "top"
    ELSE "null"

OrphanFlagsFresh(map, minCol, maxCol) == AnalyzeTopology(map, minCol, maxCol).map = map

\* the orphan flag of every brick of before is what it was
OrphanFlagsKept ==
    \A i \in 1..Len(activeBrickMap) :
        \A j \in 1..Len(activeBrickMap') :
            activeBrickMap'[j].key = activeBrickMap[i].key =>
                activeBrickMap'[j].isOrphan = activeBrickMap[i].isOrphan

\* C32: when processWallImpact returns, each brick's orphan flag equals the
\* value a fresh analyzeTopology pass over the registry would assign, also
\* after trial bricks were rolled back; an absorbed hit and an addBrickAt
\* call leave the orphan flag of every existing brick as it was.
C32_OrphanFlagsFreshAfterImpact ==
    [][/\ (lastImpact' # lastImpact /\ lastImpact'.status \in {"resolved", "absorbed"}) =>
             OrphanFlagsFresh(activeBrickMap', masterMinCol', masterMaxCol')
       /\ (lastImpact' # lastImpact /\ lastImpact'.status \in {"absorbed", "added", "occupied"}) =>
             OrphanFlagsKept]_vars

\* a repair that rolled back trial bricks and ended with the wall connected
\* and a brick cut off from it
C32_Witness ==
    /\ lastImpact.status = "resolved"
    /\ lastImpact.calls >= 4
    /\ topoResult
    /\ \E i \in 1..Len(activeBrickMap) : activeBrickMap[i].isOrphan
    /\ \E i \in 1..Len(activeBrickMap) : ~activeBrickMap[i].isOrphan

\* the wall was initialized with its baseline row strictly inside the band
BaselineInsideBand == topLimit < baselineMiddleRow /\ baselineMiddleRow < bottomLimit

RowsInBand(map) ==
    \A i \in 1..Len(map) :
        topLimit <= map[i].rowCoordinate /\ map[i].rowCoordinate <= bottomLimit

\* C33: when the baseline row lies strictly between topLimit and
\* bottomLimit, every brick's row is within [topLimit, bottomLimit] in every
\* reachable state, whatever impacts from either side were drained, and a
\* wall.update call would leave the registry as it is.
C33_RowsStayInBand ==
    BaselineInsideBand =>
        /\ RowsInBand(activeBrickMap)
        /\ WallUpdate(activeBrickMap, topLimit, bottomLimit, clientHeight) = activeBrickMap

\* the wall was pushed up to the top limit and a further hit of a bottom
\* ball on a brick of that row was absorbed
C33_Witness ==
    /\ BaselineInsideBand
    /\ lastImpact.status = "absorbed"
    /\ lastImpact.side = "bottom"
    /\ lastImpact.key[2] = topLimit
    /\ MapHas(activeBrickMap, lastImpact.key)

\* C34: in every reachable state each registry entry's key is the
\* '<column>,<row>' of the brick stored under it, also after wall.update
\* has clamped rows, so a lookup by a brick's coordinate finds that brick.
C34_KeyIsCoordinate ==
    \A i \in 1..Len(activeBrickMap) :
        /\ activeBrickMap[i].key = Key(activeBrickMap[i].columnCoordinate,
                                       activeBrickMap[i].rowCoordinate)
        /\ MapHas(activeBrickMap, BrickKey(activeBrickMap[i]))
        /\ MapGet(activeBrickMap, BrickKey(activeBrickMap[i])) = activeBrickMap[i]

-----------------------------------------------------------------------------
\* C35: right after initializeWall on a canvas whose baseline row lies
\* strictly between the row limits, analyzeTopology has reported true (and
\* reports true again), no brick is an orphan, checkWin returns null, and
\* masterMinCol and masterMaxCol are the smallest and the largest column of
\* the ribbon.
C35_FreshWallConnectedNoWinner ==
    BaselineInsideBand =>
        /\ topoResult
        /\ Connected
        /\ \A i \in 1..Len(activeBrickMap) : ~activeBrickMap[i].isOrphan
        /\ CheckWin(activeBrickMap, topLimit, bottomLimit) = NoWin
        /\ masterMinCol \in BrickCols(activeBrickMap)
        /\ masterMaxCol \in BrickCols(activeBrickMap)
        /\ \A c \in BrickCols(activeBrickMap) : masterMinCol <= c /\ c <= masterMaxCol

\* the wall rebuilt on a collapsed canvas: the 800 px fallback gives 13
\* columns and the two edge-buffer columns
C35_Witness ==
    /\ BaselineInsideBand
    /\ clientWidth = 0
    /\ Len(activeBrickMap) = 15

-----------------------------------------------------------------------------
(* Brick kinds.                                                             *)

\* the step ran initializeWall: every brick after it is a new object
WallRebuilt == Reinitialized \/ (running' /\ ~running)

\* the step was an absorbed hit on the brick under key
AbsorbedAt(key) ==
    /\ lastImpact' # lastImpact
    /\ lastImpact'.status = "absorbed"
    /\ lastImpact'.key = key

\* the step was a repair that added the brick under key
RepairAdded(key) ==
    /\ lastImpact' # lastImpact
    /\ lastImpact'.status = "resolved"
    /\ ~MapHas(activeBrickMap, key)

DemoBricks(map) == {i \in 1..Len(map) : map[i].type = "demo"}

\* C36: power-up kinds appear only on bricks added by a repair, never on
\* the bricks of a fresh ribbon; the registry holds at most one demo brick,
\* made by initializeWall at the middle column of the baseline row; and the
\* kind of a brick never changes while it is in the registry, except that an
\* absorbed hit on it clears it to none.
C36_KindsOnlyFromRepairAndInit ==
    /\ SpecialCount(activeBrickMap) = 0
    /\ [](/\ Cardinality(DemoBricks(activeBrickMap)) <= 1
          /\ \A i \in DemoBricks(activeBrickMap) :
                activeBrickMap[i].key =
                    Key((masterMinCol + masterMaxCol) \div 2, baselineMiddleRow))
    /\ [][/\ WallRebuilt => SpecialCount(activeBrickMap') = 0
          /\ ~WallRebuilt =>
                \A j \in 1..Len(activeBrickMap') :
                    IF MapHas(activeBrickMap, activeBrickMap'[j].key)
                    THEN \/ activeBrickMap'[j].type
                              = MapGet(activeBrickMap, activeBrickMap'[j].key).type
                         \/ /\ activeBrickMap'[j].type = "null"
                            /\ AbsorbedAt(activeBrickMap'[j].key)
                    ELSE /\ activeBrickMap'[j].type \in PowerUps \cup {"null"}
                         /\ RepairAdded(activeBrickMap'[j].key)]_vars

\* a repair has added a power-up brick next to the ribbon, whose demo brick
\* is still there and whose other bricks are plain
C36_Witness ==
    /\ lastImpact.status = "resolved"
    /\ SpecialCount(activeBrickMap) = 1
    /\ Cardinality(DemoBricks(activeBrickMap)) = 1
    /\ \A i \in 1..Len(activeBrickMap) :
          activeBrickMap[i].type \in PowerUps =>
              activeBrickMap[i].rowCoordinate # baselineMiddleRow

-----------------------------------------------------------------------------
\* applied power-ups m and n of the running tick read the kind of the same
\* brick, once for a ball of each side
EffectRepeated(m, n) ==
    /\ m < n
    /\ tickLog.effects[m].key = tickLog.effects[n].key
    /\ tickLog.effects[m].side # tickLog.effects[n].side

\* C37: the game effect of a power-up brick is triggered at most once: no
\* two power-ups applied within a tick, to balls of the two sides, come from
\* the same brick.
C37_EffectOncePerBrick ==
    \A m, n \in 1..Len(tickLog.effects) : ~EffectRepeated(m, n)

-----------------------------------------------------------------------------
\* the step is the end of a tick whose checkWin found a brick at a limit
TickEndsMatch == pc = "finish" /\ running /\ ~running'

\* C38: when no brick is at a row limit at the start of a tick of a running
\* match, checkWin at the end of that tick returns winner W only if the
\* drain of that tick resolved an impact staged by a ball of side W on a
\* brick that was not inert to it.
C38_WinnerPushedTheWall ==
    [][(TickEndsMatch /\ ~tickLog.atLimit) =>
          /\ winData'.winner \in tickLog.pushed
          /\ winData' = CheckWin(activeBrickMap', topLimit', bottomLimit')]_vars

\* a match on a canvas whose ribbon starts inside the band was won by the
\* bottom side in its first tick: the winning brick sits on the top limit
C38_Witness ==
    /\ ~running
    /\ ticks = 1
    /\ BaselineInsideBand
    /\ winData.winner = "bottom"
    /\ MapHas(activeBrickMap, winData.brick)
    /\ winData.brick[2] = topLimit

-----------------------------------------------------------------------------
\* the step is gameOver: the match ends
MatchEnds == running /\ ~running'

\* C39: the tick in which a brick is at a row limit when checkWin runs ends
\* the match, and only such a tick does; gameOver adds exactly 1 to the
\* tally of the winner and leaves the other tally, and nothing else changes
\* a tally; while the game is not running no tick starts, no impact is
\* staged or resolved, and no ball leaves the state it is in except through
\* start() or a launch.
C39_MatchEndsOnceAtLimit ==
    [][/\ pc = "finish" =>
             (running' <=> CheckWin(activeBrickMap', topLimit', bottomLimit') = NoWin)
       /\ MatchEnds =>
             /\ pc = "finish"
             /\ winData'.winner \in Sides
             /\ matchesWonTop'
                   = matchesWonTop + (IF winData'.winner = "top" THEN 1 ELSE 0)
             /\ matchesWonBottom'
                   = matchesWonBottom + (IF winData'.winner = "bottom" THEN 1 ELSE 0)
       /\ ~MatchEnds =>
             /\ matchesWonTop' = matchesWonTop
             /\ matchesWonBottom' = matchesWonBottom
       /\ ~running =>
             /\ pc = "idle" /\ pc' = "idle"
             /\ ticks' = ticks
             /\ tickLog' = tickLog
             /\ pendingImpacts' = pendingImpacts
             /\ lastHitBrickType' = lastHitBrickType
             /\ Len(ballsTop') = Len(ballsTop) \/ running'
             /\ Len(ballsBottom') = Len(ballsBottom) \/ running'
             /\ activeBrickMap' = activeBrickMap \/ WallRebuilt]_vars

\* a match was won by the bottom side and counted once; a ball that was in
\* play when it ended is still marked active
C39_Witness ==
    /\ ~running
    /\ pc = "idle"
    /\ matchesWonBottom = 1
    /\ matchesWonTop = 0
    /\ winData.winner = "bottom"
    /\ \E i \in 1..Len(ballsTop) : ballsTop[i].active

====
